---- MODULE Spec2Model ----
(***************************************************************************)
(* Context / session state machine of the conversational weather           *)
(* assistant: the server-side SessionStore, the client-side ContextManager *)
(* and the two context resolvers of src/lib/contextManager.ts, the date    *)
(* classifier of src/lib/weatherTools.ts, and the POST handlers of         *)
(* src/app/api/chat-optimized/route.ts and src/app/compare/page.tsx.       *)
(*                                                                         *)
(* Conventions of the model                                                *)
(*  - Time is the millisecond count of Date.now().  new Date() and         *)
(*    toISOString() keep the millisecond, so a timestamp is its integer.   *)
(*  - A JavaScript string the code inspects (a query, a city name) is a    *)
(*    sequence of one-character strings; a Japanese character is written   *)
(*    as an ASCII token ("NO" for U+306E) and counts as one character, as  *)
(*    it is one UTF-16 code unit.                                          *)
(*  - null / undefined are the values Null and Undefined below.            *)
(*  - ret is what the last call returned to its caller.                    *)
(***************************************************************************)
EXTENDS Integers, Sequences, FiniteSets, TLC

VARIABLES
    now,        \* the wall clock, Date.now()
    sessions,   \* SessionStore.sessions : Map<string, WeatherSession>
    client,     \* ContextManager.context (the client-side store)
    storage,    \* localStorage[STORAGE_KEY], a sequence of at most one snapshot
    hasWindow,  \* typeof window !== 'undefined' (browser runtime)
    ret,        \* the result handed back by the last call
    epochDay,   \* the UTC day (days since 1970-01-01) on which now = 0 falls
    tz,         \* the time zone of the process (TZ), see Zones
    turn,       \* the POST handler invocation in progress (one chat turn)
    unswept,    \* a second SessionStore given the same calls and never swept
    backend,    \* localStorage: "ok", "full" (setItem throws) or "denied"
    chat,       \* OptimizedChatInterface: the messages state and the fetch
    held,       \* a snapshot of getFullContext() that a caller holds
    inflight    \* the SessionStore calls of the turns that run side by side

\* The state of the callers of the stores
callers == <<chat, held, inflight>>

vars == <<now, sessions, client, storage, hasWindow, ret, epochDay, tz, turn,
          unswept, backend, chat, held, inflight>>

----------------------------------------------------------------------------
(* Bounds of the model *)

ClockMaxDays == 1     \* whole timeouts the clock may advance, one-session runs
MaxJitter == 1        \* single milliseconds the clock may advance
MaxDrift == 1         \* milliseconds that may pass inside one handler
ClockMaxMessages == 1 \* messageCount cap in the one-session runs
RegMaxDays == 2       \* whole timeouts the clock may advance, registry runs
MaxSessions == 2      \* entries of the registry in the registry runs
RegMaxMessages == 1   \* messages counted by all sessions, registry runs
MaxLoc == 7           \* location records offered to updateLocation
LocMaxOps == 8        \* location updates per store in the location runs
MaxDates == 11        \* target dates offered to the temporal updates
DateMaxOps == 12      \* temporal updates per store in the temporal runs
ParseMaxTicks == 3    \* eight-hour steps of the clock in the date runs
ParseMaxJitter == 1   \* milliseconds the clock may be past a whole hour, date runs
MaxCalls == 2         \* tool calls in one completion message
SweepMaxMessages == 1 \* messages counted by all sessions, sweep runs
FlowMaxOps == 22      \* mutator calls on one store in the flow runs
StoreMaxOps == 2      \* flow entries of the client store in the store runs
StoreMaxJitter == 1   \* single milliseconds the clock may advance, store runs
StoreMaxDays == 1     \* expiry windows the clock may advance, store runs

----------------------------------------------------------------------------
(* Program constants *)

SESSION_TIMEOUT == 24 * 60 * 60 * 1000
MAX_RECENT_LOCATIONS == 5
MAX_RECENT_DATES == 10

\* null where an object is expected, null where a string is expected, and
\* an optional string argument that was not passed
Null == [null |-> TRUE]
NullStr == "<null>"
Undefined == "<undefined>"

----------------------------------------------------------------------------
(* Generic helpers for arrays *)

Min(a, b) == IF a < b THEN a ELSE b

\* Array.prototype.slice(0, n)
SliceFront(s, n) == SubSeq(s, 1, Min(Len(s), n))

\* Array.prototype.slice(-n)
SliceBack(s, n) == IF Len(s) <= n THEN s ELSE SubSeq(s, Len(s) - n + 1, Len(s))

----------------------------------------------------------------------------
(* Data: locations, dates, contexts *)

Loc(city, country, lat, lon) ==
    [city |-> city, country |-> country, latitude |-> lat, longitude |-> lon]

\* City and country names as character sequences.
Tokyo == <<"T", "o", "k", "y", "o">>
Paris == <<"P", "a", "r", "i", "s">>
London == <<"L", "o", "n", "d", "o", "n">>
Varanasi == <<"V", "a", "r", "a", "n", "a", "s", "i">>
Osaka == <<"O", "s", "a", "k", "a">>
Kyoto == <<"K", "y", "o", "t", "o">>
Delhi == <<"D", "e", "l", "h", "i">>

\* The location records the runs offer.  Records 1 and 4 are the same place
\* (city, country) with different coordinates; records 2 and 3 share the city
\* name and differ in the country.
AllLocations ==
    << Loc(Tokyo, <<"J", "P">>, 35, 139),
       Loc(Paris, <<"F", "R">>, 48, 2),
       Loc(Paris, <<"U", "S">>, 33, -95),
       Loc(Tokyo, <<"J", "P">>, 36, 140),
       Loc(London, <<"G", "B">>, 51, 0),
       Loc(Varanasi, <<"I", "N">>, 25, 82),
       Loc(Osaka, <<"J", "P">>, 34, 135),
       Loc(Kyoto, <<"J", "P">>, 35, 135),
       Loc(Delhi, <<"I", "N">>, 28, 77) >>

Locations == {AllLocations[i] : i \in 1..MaxLoc}

\* loc.city === location.city && loc.country === location.country
SamePlace(a, b) == a.city = b.city /\ a.country = b.country

AllDates ==
    << "2024-01-01", "2024-01-02", "2024-01-03", "2024-01-04", "2024-01-05",
       "2024-01-06", "2024-01-07", "2024-01-08", "2024-01-09", "2024-01-10",
       "2024-01-11", "2024-01-12", "2024-01-13" >>

Dates == {AllDates[i] : i \in 1..MaxDates}

Timeframes == {"current", "historical", "forecast"}
Intents == {"weather", "clothing", "travel", "comparison", "general"}

\* JavaScript truthiness of an optional string argument
Truthy(str) == str # Undefined /\ str # "" /\ str # NullStr

\* targetDate || null
OrNull(str) == IF Truthy(str) THEN str ELSE NullStr

\* The context literal of createSession (and of initializeContext, whose
\* only difference is the default language).
FreshContext(t, language) ==
    [ location |-> [current |-> Null, recent |-> <<>>, preferences |-> <<>>],
      temporal |-> [currentTimeframe |-> "current", targetDate |-> NullStr,
                    recentDates |-> <<>>, relativeDateContext |-> Undefined],
      conversation |-> [lastWeatherQuery |-> <<>>, queryIntent |-> "general",
                        followUpContext |-> NullStr, conversationFlow |-> <<>>],
      preferences |-> [language |-> language, units |-> "metric",
                       detailLevel |-> "detailed", favoriteLocations |-> <<>>],
      session |-> [startTime |-> t, lastActivity |-> t, messageCount |-> 0] ]

\* { ...base, ...updates } : the keys of updates replace those of base
Spread(base, updates) ==
    [k \in DOMAIN base |-> IF k \in DOMAIN updates THEN updates[k] ELSE base[k]]

\* A partial context with no key
EmptyPartial == [k \in {} |-> Null]

----------------------------------------------------------------------------
(* The clock *)

Day(t) == t \div SESSION_TIMEOUT
Jitter(t) == t % SESSION_TIMEOUT

RECURSIVE Later(_, _, _)
\* The non-decreasing sequences of n clock readings within lo..hi
Later(n, lo, hi) ==
    IF n = 0 THEN {<<>>}
    ELSE UNION { {<<t>> \o rest : rest \in Later(n - 1, t, hi)} : t \in lo..hi }

\* The successive clock readings of one handler: the first is taken at the
\* call, the later ones may be up to MaxDrift ms later, never earlier.
ClockReads(n) ==
    { <<now>> \o rest :
        rest \in Later(n - 1, now,
                       now + Min(MaxDrift, MaxJitter - Jitter(now))) }

\* The readings of a handler during which the clock does not move
Steady(n) == [i \in 1..n |-> now]

\* Time passes between two calls.
Tick(d) ==
    /\ d > 0
    /\ now' = now + d
    /\ UNCHANGED <<sessions, client, storage, hasWindow, ret, epochDay, tz, turn,
                 unswept, backend, callers>>

----------------------------------------------------------------------------
(* SessionStore *)

\* A session id that generateSessionId never returns
UnknownSid == <<0, 0>>

\* `session_${Date.now()}_${Math.random().toString(36).substr(2, 9)}`
generateSessionId(t, rnd) == <<t, rnd>>

Ret(op, sid, found) ==
    [op |-> op, sid |-> sid, found |-> found, threw |-> FALSE,
     needsLocationInput |-> FALSE, needsTimeInput |-> FALSE,
     contextualQuery |-> <<>>]

Remove(S, sid) == [s \in DOMAIN S \ {sid} |-> S[s]]

\* Faulty variant: the new location record is assigned into the old one, so
\* every session that holds that record takes the change
PutAliased(S, sid, session) ==
    [s \in DOMAIN S \cup {sid} |->
        IF s = sid THEN session
        ELSE IF sid \in DOMAIN S
                /\ S[s].context.location = S[sid].context.location
        THEN [S[s] EXCEPT !.context.location = session.context.location]
        ELSE S[s]]

\* this.sessions.set(sessionId, session), or a field of the entry assigned
Put(S, sid, session) ==
    [s \in DOMAIN S \cup {sid} |-> IF s = sid THEN session ELSE S[s]]

\* Faulty variant: the session already counts as expired at its deadline
ExpiredAtDeadline(session, t) == t >= session.expiresAt

\* new Date() > session.expiresAt
Expired(session, t) == t > session.expiresAt

\* createSession applied to the registry S: the id is drawn at t1, the
\* timestamps at t2
createSessionR(S, seed, rnd, t1, t2) ==
    LET sid == generateSessionId(t1, rnd)
        session == [ sessionId |-> sid,
                     context |-> Spread(FreshContext(t2, "en"), seed),
                     lastActivity |-> t2,
                     expiresAt |-> t2 + SESSION_TIMEOUT ]
    IN [S |-> Put(S, sid, session), sid |-> sid]

\* Faulty variant: a read slides the expiry like an update does
getSessionSliding(S, sid, t) ==
    IF sid \notin DOMAIN S THEN [S |-> S, found |-> FALSE]
    ELSE IF Expired(S[sid], t) THEN [S |-> Remove(S, sid), found |-> FALSE]
    ELSE [S |-> Put(S, sid, [S[sid] EXCEPT !.expiresAt = t + SESSION_TIMEOUT]),
          found |-> TRUE]

\* Faulty variant: an expired session is still handed out
getSessionNoExpiry(S, sid, t) ==
    IF sid \notin DOMAIN S THEN [S |-> S, found |-> FALSE]
    ELSE [S |-> S, found |-> TRUE]

\* getSession applied to the registry S at clock reading t
getSessionR(S, sid, t) ==
    IF sid \notin DOMAIN S THEN [S |-> S, found |-> FALSE]
    ELSE IF Expired(S[sid], t) THEN [S |-> Remove(S, sid), found |-> FALSE]
    ELSE [S |-> S, found |-> TRUE]

\* Faulty variant: the partial is spread after the session record, so a partial
\* that carries a session record wins
mergedContextUpdatesLast(old, updates, t) ==
    Spread([ old EXCEPT
               !.session = [ startTime |-> old.session.startTime,
                             lastActivity |-> t,
                             messageCount |-> old.session.messageCount + 1 ] ],
           updates)

\* The context of updateSession: the partial is spread over the old context
\* and the session record is written last
mergedContext(old, updates, t) ==
    [ Spread(old, updates) EXCEPT
        !.session = [ startTime |-> old.session.startTime,
                      lastActivity |-> t,
                      messageCount |-> old.session.messageCount + 1 ] ]

\* updateSession applied to the registry S; its clock readings are
\* t1 (getSession), t2, t3 (the two lastActivity stamps) and t4 (expiresAt)
updateSessionR(S, sid, updates, t1, t2, t3, t4) ==
    LET g == getSessionR(S, sid, t1) IN
    IF ~g.found THEN g
    ELSE [ S |-> Put(g.S, sid,
                     [ sessionId |-> sid,
                       context |-> mergedContext(g.S[sid].context, updates, t2),
                       lastActivity |-> t3,
                       expiresAt |-> t4 + SESSION_TIMEOUT ]),
           found |-> TRUE ]

\* Faulty variant: the earlier entry of the same place is not filtered out
recentWithNoFilter(recent, location) ==
    SliceFront(<<location>> \o recent, 5)

\* location.recent of updateLocation
recentWith(recent, location) ==
    SliceFront(<<location>> \o
               SelectSeq(recent, LAMBDA loc : ~SamePlace(loc, location)), 5)

\* Faulty variant: the list is cut one entry too late
recentDatesWithLateCut(recentDates, timeframe, targetDate, t) ==
    IF Truthy(targetDate)
    THEN SliceFront(<<[date |-> targetDate, type |-> timeframe, lastUsed |-> t]>> \o
                    SelectSeq(recentDates, LAMBDA d : d.date # targetDate), 11)
    ELSE recentDates

\* temporal.recentDates of updateTemporal
recentDatesWith(recentDates, timeframe, targetDate, t) ==
    IF Truthy(targetDate)
    THEN SliceFront(<<[date |-> targetDate, type |-> timeframe, lastUsed |-> t]>> \o
                    SelectSeq(recentDates, LAMBDA d : d.date # targetDate), 10)
    ELSE recentDates

\* Faulty variant: when the log is full the newest entry is the one dropped
flowWithOldestKept(flow, type, value, t) ==
    SliceFront(flow \o <<[type |-> type, value |-> value, timestamp |-> t]>>, 20)

\* conversation.conversationFlow of updateConversation
flowWith(flow, type, value, t) ==
    SliceBack(flow \o <<[type |-> type, value |-> value, timestamp |-> t]>>, 20)

\* updateLocation applied to the registry S; clk are its clock readings:
\* getSession, then the four of updateSession
updateLocationR(S, sid, location, clk) ==
    LET g == getSessionR(S, sid, clk[1])
        old == g.S[sid].context.location
        updatedContext ==
            [k \in {"location"} |->
                [ current |-> location,
                  recent |-> recentWith(old.recent, location),
                  preferences |-> old.preferences ]]
        r == IF g.found
             THEN updateSessionR(g.S, sid, updatedContext, clk[2], clk[3], clk[4], clk[5])
             ELSE g
    IN [ S |-> r.S, found |-> r.found,
         t |-> IF r.found THEN clk[5] ELSE IF g.found THEN clk[2] ELSE clk[1] ]

\* updateTemporal applied to the registry S; clk are its clock readings:
\* getSession, the lastUsed stamp, then the four of updateSession
updateTemporalR(S, sid, timeframe, targetDate, clk) ==
    LET g == getSessionR(S, sid, clk[1])
        old == g.S[sid].context.temporal
        updatedContext ==
            [k \in {"temporal"} |->
                [ currentTimeframe |-> timeframe,
                  targetDate |-> OrNull(targetDate),
                  recentDates |-> recentDatesWith(old.recentDates, timeframe,
                                                  targetDate, clk[2]),
                  relativeDateContext |-> Undefined ]]
        r == IF g.found
             THEN updateSessionR(g.S, sid, updatedContext, clk[3], clk[4], clk[5], clk[6])
             ELSE g
    IN [ S |-> r.S, found |-> r.found,
         t |-> IF r.found THEN clk[6] ELSE IF g.found THEN clk[3] ELSE clk[1] ]

\* updateConversation applied to the registry S; clk are its clock readings:
\* getSession, the timestamp of the flow entry, then the four of updateSession
updateConversationR(S, sid, query, intent, clk) ==
    LET g == getSessionR(S, sid, clk[1])
        old == g.S[sid].context.conversation
        updatedContext ==
            [k \in {"conversation"} |->
                [ lastWeatherQuery |-> query,
                  queryIntent |-> intent,
                  followUpContext |-> NullStr,
                  conversationFlow |-> flowWith(old.conversationFlow, "intent",
                                                intent, clk[2]) ]]
        r == IF g.found
             THEN updateSessionR(g.S, sid, updatedContext, clk[3], clk[4], clk[5], clk[6])
             ELSE g
    IN [ S |-> r.S, found |-> r.found,
         t |-> IF r.found THEN clk[6] ELSE IF g.found THEN clk[3] ELSE clk[1] ]

\* Faulty variant: the sweep also removes the sessions at their deadline
cleanupAtDeadline(S, t) ==
    [s \in {x \in DOMAIN S : ~(t >= S[x].expiresAt)} |-> S[s]]

\* cleanup applied to the registry S: one clock reading, then every entry
\* with now > expiresAt is deleted
cleanupR(S, t) ==
    [s \in {x \in DOMAIN S : ~(t > S[x].expiresAt)} |-> S[s]]

CreateSession(seed, rnd, clk) ==
    LET r == createSessionR(sessions, seed, rnd, clk[1], clk[2]) IN
    /\ sessions' = r.S
    /\ now' = clk[2]
    /\ ret' = Ret("createSession", r.sid, TRUE)
    /\ UNCHANGED <<client, storage, hasWindow, epochDay, tz, turn,
                 unswept, backend, callers>>

GetSession(sid) ==
    LET r == getSessionR(sessions, sid, now) IN
    /\ sessions' = r.S
    /\ ret' = Ret("getSession", sid, r.found)
    /\ UNCHANGED <<now, client, storage, hasWindow, epochDay, tz, turn,
                 unswept, backend, callers>>

Cleanup ==
    /\ sessions' = cleanupR(sessions, now)
    /\ ret' = Ret("cleanup", UnknownSid, FALSE)
    /\ UNCHANGED <<now, client, storage, hasWindow, epochDay, tz, turn,
                   unswept, backend, callers>>

UpdateSession(sid, updates, clk) ==
    LET r == updateSessionR(sessions, sid, updates, clk[1], clk[2], clk[3], clk[4]) IN
    /\ sessions' = r.S
    /\ now' = IF r.found THEN clk[4] ELSE clk[1]
    /\ ret' = Ret("updateSession", sid, r.found)
    /\ UNCHANGED <<client, storage, hasWindow, epochDay, tz, turn,
                 unswept, backend, callers>>

UpdateLocation(sid, location, clk) ==
    LET r == updateLocationR(sessions, sid, location, clk) IN
    /\ sessions' = r.S
    /\ now' = r.t
    /\ ret' = Ret("updateLocation", sid, r.found)
    /\ UNCHANGED <<client, storage, hasWindow, epochDay, tz, turn,
                 unswept, backend, callers>>

UpdateTemporal(sid, timeframe, targetDate, clk) ==
    LET r == updateTemporalR(sessions, sid, timeframe, targetDate, clk) IN
    /\ sessions' = r.S
    /\ now' = r.t
    /\ ret' = Ret("updateTemporal", sid, r.found)
    /\ UNCHANGED <<client, storage, hasWindow, epochDay, tz, turn,
                 unswept, backend, callers>>

UpdateConversation(sid, query, intent, clk) ==
    LET r == updateConversationR(sessions, sid, query, intent, clk) IN
    /\ sessions' = r.S
    /\ now' = r.t
    /\ ret' = Ret("updateConversation", sid, r.found)
    /\ UNCHANGED <<client, storage, hasWindow, epochDay, tz, turn,
                 unswept, backend, callers>>

----------------------------------------------------------------------------
(* ContextManager (the client-side store) *)

NoSid == <<0, 0>>

\* getFullContext() returns { ...this.context }: a new object whose
\* properties are the sub-record objects of the store themselves.  A held
\* snapshot is modelled by the keys under which it still has the object the
\* store has (shared) and by the values under its other keys (own).  What a
\* method of the store assigns into a sub-record shows under a shared key;
\* when the store replaces a sub-record by a new object, the snapshot keeps
\* the old one.
NoHeld == [taken |-> FALSE, shared |-> {}, own |-> Null]

\* The snapshot as its holder reads it
Seen(h) ==
    [k \in DOMAIN h.own |-> IF k \in h.shared THEN client[k] ELSE h.own[k]]

\* The store has replaced its objects under keys by new ones
Detached(h, keys) ==
    IF h.shared \cap keys = {} THEN h
    ELSE [h EXCEPT !.shared = @ \ keys,
                   !.own = [k \in DOMAIN @ |->
                              IF k \in h.shared \cap keys THEN client[k]
                              ELSE @[k]]]

\* location.confidence || 1.0
Confidence(location) ==
    IF "confidence" \in DOMAIN location /\ location.confidence # 0
    THEN location.confidence ELSE 1

\* { ...location, lastUsed: new Date().toISOString(), confidence: ... }
Stamped(location, t) ==
    [ city |-> location.city, country |-> location.country,
      latitude |-> location.latitude, longitude |-> location.longitude,
      lastUsed |-> t, confidence |-> Confidence(location) ]

\* `${location.city}, ${location.country}`
PlaceLabel(location) == location.city \o <<",", " ">> \o location.country

\* addToConversationFlow: push, then keep the last 20
addToConversationFlow(ctx, type, value, t) ==
    [ctx EXCEPT !.conversation.conversationFlow = flowWith(@, type, value, t)]

\* persistContext: stamps lastActivity and writes the snapshot, in the
\* browser only
persistContext(ctx, t) ==
    IF hasWindow THEN [ctx EXCEPT !.session.lastActivity = t] ELSE ctx

\* localStorage.setItem throws when the storage is full or denied; the
\* exception is caught and the stored copy stays as it was
persistedStorage(ctx) ==
    IF hasWindow /\ backend = "ok" THEN <<ctx>> ELSE storage

\* The in-memory part of ContextManager.updateLocation
cmUpdateLocation(ctx, location, t1, t2) ==
    LET current == Stamped(location, t1)
        kept == SelectSeq(ctx.location.recent,
                          LAMBDA loc : ~SamePlace(loc, location))
        unshifted == <<current>> \o kept
        recent == IF Len(unshifted) > MAX_RECENT_LOCATIONS
                  THEN SliceFront(unshifted, MAX_RECENT_LOCATIONS)
                  ELSE unshifted
    IN addToConversationFlow(
           [ctx EXCEPT !.location.current = current, !.location.recent = recent],
           "location", PlaceLabel(location), t2)

\* The in-memory part of ContextManager.updateTemporalContext
cmUpdateTemporalContext(ctx, timeframe, targetDate, relativeDateContext, t1, t2) ==
    LET c1 == [ctx EXCEPT !.temporal.currentTimeframe = timeframe,
                          !.temporal.targetDate = OrNull(targetDate),
                          !.temporal.relativeDateContext = relativeDateContext]
        kept == SelectSeq(c1.temporal.recentDates,
                          LAMBDA d : d.date # targetDate)
        unshifted == <<[date |-> targetDate, type |-> timeframe,
                        lastUsed |-> t1]>> \o kept
        recentDates == IF Len(unshifted) > MAX_RECENT_DATES
                       THEN SliceFront(unshifted, MAX_RECENT_DATES)
                       ELSE unshifted
    IN IF Truthy(targetDate) /\ timeframe # "current"
       THEN addToConversationFlow(
                [c1 EXCEPT !.temporal.recentDates = recentDates], "date",
                IF Truthy(relativeDateContext) THEN relativeDateContext
                                               ELSE targetDate, t2)
       ELSE c1

\* The in-memory part of ContextManager.updateConversationContext
cmUpdateConversationContext(ctx, query, intent, followUpContext, t) ==
    addToConversationFlow(
        [ctx EXCEPT !.conversation.lastWeatherQuery = query,
                    !.conversation.queryIntent = intent,
                    !.conversation.followUpContext = OrNull(followUpContext),
                    !.session.messageCount = @ + 1],
        "intent", intent, t)

CMUpdateLocation(location, clk) ==
    LET c == persistContext(cmUpdateLocation(client, location, clk[1], clk[2]),
                            clk[3])
    IN
    /\ client' = c
    /\ storage' = persistedStorage(c)
    /\ now' = IF hasWindow THEN clk[3] ELSE clk[2]
    /\ ret' = Ret("ContextManager.updateLocation", NoSid, TRUE)
    /\ UNCHANGED <<sessions, hasWindow, epochDay, tz, turn,
                 unswept, backend, callers>>

CMUpdateTemporalContext(timeframe, targetDate, relativeDateContext, clk) ==
    LET c == persistContext(
                 cmUpdateTemporalContext(client, timeframe, targetDate,
                                         relativeDateContext, clk[1], clk[2]),
                 clk[3])
    IN
    /\ client' = c
    /\ storage' = persistedStorage(c)
    /\ now' = IF hasWindow THEN clk[3] ELSE clk[2]
    /\ ret' = Ret("ContextManager.updateTemporalContext", NoSid, TRUE)
    /\ UNCHANGED <<sessions, hasWindow, epochDay, tz, turn,
                 unswept, backend, callers>>

CMUpdateConversationContext(query, intent, followUpContext, clk) ==
    LET c == persistContext(
                 cmUpdateConversationContext(client, query, intent,
                                             followUpContext, clk[1]),
                 clk[2])
    IN
    /\ client' = c
    /\ storage' = persistedStorage(c)
    /\ now' = IF hasWindow THEN clk[2] ELSE clk[1]
    /\ ret' = Ret("ContextManager.updateConversationContext", NoSid, TRUE)
    /\ UNCHANGED <<sessions, hasWindow, epochDay, tz, turn,
                 unswept, backend, callers>>

\* The in-memory part of ContextManager.updatePreferences
cmUpdatePreferences(ctx, preferences) ==
    [ctx EXCEPT !.preferences = Spread(@, preferences)]

CMUpdatePreferences(preferences, clk) ==
    LET c == persistContext(cmUpdatePreferences(client, preferences), clk[1])
    IN
    /\ client' = c
    /\ storage' = persistedStorage(c)
    /\ now' = IF hasWindow THEN clk[1] ELSE now
    /\ ret' = Ret("ContextManager.updatePreferences", NoSid, TRUE)
    /\ held' = Detached(held, {"preferences"})  \* this.context.preferences = {...}
    /\ UNCHANGED <<sessions, hasWindow, epochDay, tz, turn, unswept, backend,
                   chat, inflight>>

CONTEXT_EXPIRY_HOURS == 24

\* A stored text that JSON.parse rejects
Garbled == [garbled |-> TRUE]

\* parsedContext.session?.lastActivity is there
HasLastActivity(parsed) ==
    /\ "session" \in DOMAIN parsed
    /\ "lastActivity" \in DOMAIN parsed.session

\* hoursDiff < CONTEXT_EXPIRY_HOURS, with hoursDiff the milliseconds since
\* lastActivity divided by the milliseconds of an hour.  A snapshot without
\* lastActivity is dated new Date(0), decades before any clock reading.
NotExpired(parsed, t) ==
    /\ HasLastActivity(parsed)
    /\ t - parsed.session.lastActivity < CONTEXT_EXPIRY_HOURS * 1000 * 60 * 60

\* this.context after loadPersistedContext: stored is the content of the
\* storage key, t1 the reading of now, t2 the lastActivity stamp.  Whatever
\* is thrown on the way (storage access denied, a text that does not parse)
\* is caught and leaves the context as it was.
loadedContext(ctx, stored, t1, t2) ==
    IF ~hasWindow \/ backend = "denied" \/ stored = <<>> THEN ctx
    ELSE IF stored[1] = Garbled THEN ctx
    ELSE IF NotExpired(stored[1], t1)
    THEN [ Spread(ctx, stored[1]) EXCEPT
             !.session = [k \in DOMAIN stored[1].session |->
                            IF k = "lastActivity" THEN t2
                            ELSE stored[1].session[k]] ]
    ELSE ctx

\* Faulty variant: the persisted copy is left in place
clearedStorageKept(stored) == stored

\* The storage key after clearPersistedContext
clearedStorage(stored) ==
    IF hasWindow /\ backend # "denied" THEN <<>> ELSE stored

\* The storage key after loadPersistedContext: an expired snapshot is cleared
loadedStorage(stored, t1) ==
    IF ~hasWindow \/ backend = "denied" \/ stored = <<>> THEN stored
    ELSE IF stored[1] = Garbled THEN stored
    ELSE IF NotExpired(stored[1], t1) THEN stored
    ELSE clearedStorage(stored)

\* new ContextManager(): the page is loaded (again).  clk are the clock
\* readings of initializeContext, of the expiry test and of the stamp.
Construct(clk) ==
    /\ client' = loadedContext(FreshContext(clk[1], "ja"), storage, clk[2], clk[3])
    /\ storage' = loadedStorage(storage, clk[2])
    /\ now' = clk[3]
    /\ ret' = Ret("new ContextManager", NoSid, TRUE)
    /\ held' = Detached(held, DOMAIN client)    \* a new ContextManager
    /\ UNCHANGED <<sessions, hasWindow, epochDay, tz, turn, unswept, backend,
                   chat, inflight>>

\* ContextManager.clearContext
ClearContext(clk) ==
    /\ client' = FreshContext(clk[1], "ja")
    /\ storage' = clearedStorage(storage)
    /\ now' = clk[1]
    /\ ret' = Ret("ContextManager.clearContext", NoSid, TRUE)
    /\ held' = Detached(held, DOMAIN client)    \* this.context = initializeContext()
    /\ UNCHANGED <<sessions, hasWindow, epochDay, tz, turn, unswept, backend,
                   chat, inflight>>

----------------------------------------------------------------------------
(* Strings and the lexical tests of the resolvers *)

UpperCase == << "A", "B", "C", "D", "E", "F", "G", "H", "I", "J", "K", "L", "M",
                "N", "O", "P", "Q", "R", "S", "T", "U", "V", "W", "X", "Y", "Z" >>
LowerCase == << "a", "b", "c", "d", "e", "f", "g", "h", "i", "j", "k", "l", "m",
                "n", "o", "p", "q", "r", "s", "t", "u", "v", "w", "x", "y", "z" >>

LowerChar(c) ==
    IF \E i \in 1..26 : UpperCase[i] = c
    THEN LowerCase[CHOOSE i \in 1..26 : UpperCase[i] = c]
    ELSE c

\* String.prototype.toLowerCase
toLowerCase(str) == [i \in 1..Len(str) |-> LowerChar(str[i])]

\* String.prototype.trim
trim(str) ==
    LET inked == {i \in 1..Len(str) : str[i] # " "} IN
    IF inked = {} THEN <<>>
    ELSE SubSeq(str, CHOOSE i \in inked : \A j \in inked : i <= j,
                     CHOOSE i \in inked : \A j \in inked : i >= j)

\* A regular expression that is a literal: does it match somewhere in str
Includes(str, lit) ==
    \E i \in 1..(Len(str) - Len(lit) + 1) : SubSeq(str, i, i + Len(lit) - 1) = lit

\* /in |at |for /
EnMarkers == { <<"i", "n", " ">>, <<"a", "t", " ">>, <<"f", "o", "r", " ">> }
\* /in |at |for |weather/
EnIndicators == EnMarkers \cup { <<"w", "e", "a", "t", "h", "e", "r">> }
\* /NO TEN KI | DE | NI/ : the Japanese markers U+306E U+5929 U+6C17, U+3067, U+306B
JaMarkers == { <<"NO", "TEN", "KI">>, <<"DE">>, <<"NI">> }

\* hasExplicitLocation of resolveImplicitContext
hasExplicitLocation(query, language) ==
    IF language = "ja"
    THEN \E m \in JaMarkers : Includes(query, m)
    ELSE \E m \in EnMarkers : Includes(toLowerCase(query), m)

\* hasLocationIndicators of resolveContextWithSession
hasLocationIndicators(query, language) ==
    IF language = "ja"
    THEN (\E m \in JaMarkers : Includes(query, m)) \/ Len(query) > 10
    ELSE (\E m \in EnIndicators : Includes(toLowerCase(query), m)) \/ Len(query) > 10

\* `${city}NO${query}` for Japanese, `${query} in ${city}` otherwise
withCity(query, city, language) ==
    IF language = "ja" THEN city \o <<"NO">> \o query
    ELSE query \o <<" ", "i", "n", " ">> \o city

\* The queries the runs offer
Q_hi == <<"h", "i">>
Q_Tomorrow == <<"T", "o", "m", "o", "r", "r", "o", "w", "?">>
Q_weather == <<"W", "e", "a", "t", "h", "e", "r">>
Q_RainInOsaka == <<"R", "a", "i", "n", " ", "I", "N", " ", "O", "s", "a", "k", "a">>
Q_atHome == <<"a", "t", " ", "h", "o", "m", "e">>
Q_HowAboutYesterday ==
    <<"H", "o", "w", " ", "a", "b", "o", "u", "t", " ",
      "y", "e", "s", "t", "e", "r", "d", "a", "y", "?">>
Q_padded == <<" ", " ", " ", "h", "i", "?", " ", " ", " ", " ">>
Q_ashita == <<"A", "SHI", "TA", "WA", "?">>
Q_TokyoNoTenki == <<"TO", "KYO", "NO", "TEN", "KI">>
Q_OsakaDe == <<"O", "SA", "KA", "DE">>

Queries == { Q_hi, Q_Tomorrow, Q_weather, Q_RainInOsaka, Q_atHome,
             Q_HowAboutYesterday, Q_padded, Q_ashita, Q_TokyoNoTenki, Q_OsakaDe }

Languages == {"en", "ja"}

----------------------------------------------------------------------------
(* The resolvers *)

\* ContextManager.resolveImplicitContext
ResolveImplicitContext(query, language) ==
    LET has == hasExplicitLocation(query, language)
        current == client.location.current
    IN
    /\ ret' = [ Ret("resolveImplicitContext", NoSid, current # Null) EXCEPT
                  !.needsLocationInput = ~has /\ current = Null,
                  !.contextualQuery =
                      IF ~has /\ current # Null
                      THEN withCity(query, current.city, language)
                      ELSE query ]
    /\ UNCHANGED <<now, sessions, client, storage, hasWindow, epochDay, tz, turn,
                 unswept, backend, callers>>

\* resolveContextWithSession.  With a live session the function reads the
\* name hasExplicitLocation, which is bound nowhere in its scope: evaluating
\* it raises a ReferenceError and the call returns nothing.
ResolveContextWithSession(sid, query, language) ==
    LET g == getSessionR(sessions, sid, now)
        has == hasLocationIndicators(query, language)
    IN
    /\ sessions' = g.S
    /\ ret' = IF ~g.found
              THEN [ Ret("resolveContextWithSession", sid, FALSE) EXCEPT
                       !.needsLocationInput = ~has /\ Len(trim(query)) < 8,
                       !.contextualQuery = query ]
              ELSE [ Ret("resolveContextWithSession", sid, TRUE) EXCEPT
                       !.threw = TRUE ]
    /\ UNCHANGED <<now, client, storage, hasWindow, epochDay, tz, turn,
                 unswept, backend, callers>>

----------------------------------------------------------------------------
(* The calendar of JavaScript Date (src/lib/weatherTools.ts, parseDate)     *)
(*  - An instant is the pair of its UTC day (days since 1970-01-01) and the *)
(*    millisecond of that day; Date.now() = epochDay * DayMs + now.         *)
(*  - The local calendar of the process is UTC shifted by the offset of its *)
(*    time zone, in minutes east of UTC; a zone with daylight saving moves  *)
(*    its offset forward by an hour at the instant of the change.           *)
(*  - A date string is a sequence of one-character strings.                 *)

DayMs == SESSION_TIMEOUT
MinuteMs == 60 * 1000
HourMs == 60 * MinuteMs

\* new Date(): the instant of the clock
Instant(t) == [day |-> epochDay + (t \div DayMs), ms |-> t % DayMs]

\* a < b on Date objects (compared by time value)
Before(a, b) == a.day < b.day \/ (a.day = b.day /\ a.ms < b.ms)

\* a day no run reaches
Never == [day |-> 1000000, ms |-> 0]

\* Time zones: UTC, Asia/Tokyo (no daylight saving), and Europe/Berlin, which
\* goes from UTC+1 to UTC+2 on 2024-03-31 at 01:00 UTC
UTC == [offset |-> 0, change |-> Never]
Tokyo_TZ == [offset |-> 540, change |-> Never]
Berlin_TZ == [offset |-> 60, change |-> [day |-> 19813, ms |-> HourMs]]
Zones == {UTC, Tokyo_TZ, Berlin_TZ}

\* The offset of the zone in force at an instant, in milliseconds
OffsetAt(i) ==
    (IF Before(i, tz.change) THEN tz.offset ELSE tz.offset + 60) * MinuteMs

\* The local calendar day and the local millisecond of day of an instant
LocalDay(i) == i.day + ((i.ms + OffsetAt(i)) \div DayMs)
LocalMs(i) == (i.ms + OffsetAt(i)) % DayMs

\* The instant that is off milliseconds before time-of-day ms of day d
Shifted(d, ms, off) ==
    [day |-> d + ((ms - off) \div DayMs), ms |-> (ms - off) % DayMs]

\* The instant at which the local calendar shows day d and time-of-day ms.
\* A local time skipped by the change is read with the offset before it.
FromLocal(d, ms) ==
    LET early == Shifted(d, ms, tz.offset * MinuteMs)
        late == Shifted(d, ms, (tz.offset + 60) * MinuteMs)
    IN IF Before(early, tz.change) THEN early
       ELSE IF ~Before(late, tz.change) THEN late
       ELSE early

\* new Date(i) followed by setDate(getDate() + k): the local day of month
\* moves by k days, the local time of day is kept
setDateBy(i, k) == FromLocal(LocalDay(i) + k, LocalMs(i))

\* Days since 1970-01-01 of the civil date y-m-d (proleptic Gregorian)
DaysFromCivil(y, m, d) ==
    LET yy == IF m <= 2 THEN y - 1 ELSE y
        era == yy \div 400
        yoe == yy - era * 400
        mp == IF m > 2 THEN m - 3 ELSE m + 9
        doy == ((153 * mp + 2) \div 5) + d - 1
        doe == yoe * 365 + (yoe \div 4) - (yoe \div 100) + doy
    IN era * 146097 + doe - 719468

\* The civil date <<y, m, d>> of a day number
CivilFromDays(z) ==
    LET zz == z + 719468
        era == zz \div 146097
        doe == zz - era * 146097
        yoe == (doe - (doe \div 1460) + (doe \div 36524) - (doe \div 146096)) \div 365
        doy == doe - (365 * yoe + (yoe \div 4) - (yoe \div 100))
        mp == (5 * doy + 2) \div 153
        d == doy - ((153 * mp + 2) \div 5) + 1
        m == IF mp < 10 THEN mp + 3 ELSE mp - 9
        y == yoe + era * 400 + (IF m <= 2 THEN 1 ELSE 0)
    IN <<y, m, d>>

Digits == <<"0", "1", "2", "3", "4", "5", "6", "7", "8", "9">>
IsDigit(c) == \E k \in 1..10 : Digits[k] = c
DigitValue(c) == (CHOOSE k \in 1..10 : Digits[k] = c) - 1
DigitChar(n) == Digits[n + 1]

\* A number written with w digits, as toISOString writes year, month and day
RECURSIVE Padded(_, _)
Padded(n, w) ==
    IF w = 0 THEN <<>> ELSE Append(Padded(n \div 10, w - 1), DigitChar(n % 10))

\* The value of a sequence of digits
RECURSIVE NumberOf(_)
NumberOf(s) ==
    IF s = <<>> THEN 0
    ELSE 10 * NumberOf(SubSeq(s, 1, Len(s) - 1)) + DigitValue(s[Len(s)])

\* date.toISOString().split('T')[0]: the UTC calendar date of the instant
isoDate(i) ==
    LET c == CivilFromDays(i.day)
    IN Padded(c[1], 4) \o <<"-">> \o Padded(c[2], 2) \o <<"-">> \o Padded(c[3], 2)

\* /^\d{4}-\d{2}-\d{2}$/.test(s)
IsDateLiteral(s) ==
    /\ Len(s) = 10
    /\ s[5] = "-" /\ s[8] = "-"
    /\ \A k \in {1, 2, 3, 4, 6, 7, 9, 10} : IsDigit(s[k])

\* new Date('YYYY-MM-DD'): a date-only ISO string is midnight UTC of the date
dateOfLiteral(s) ==
    [day |-> DaysFromCivil(NumberOf(SubSeq(s, 1, 4)), NumberOf(SubSeq(s, 6, 7)),
                           NumberOf(SubSeq(s, 9, 10))),
     ms |-> 0]

\* The date strings handed to parseDate
D_today == <<"t", "o", "d", "a", "y">>
D_Today == <<"T", "o", "d", "a", "y">>
D_NOW == <<"N", "O", "W">>
D_tomorrow == <<"t", "o", "m", "o", "r", "r", "o", "w">>
D_ToMorrow == <<"T", "o", "M", "o", "r", "r", "o", "w">>
D_yesterday == <<"y", "e", "s", "t", "e", "r", "d", "a", "y">>
D_YESTERDAY == <<"Y", "E", "S", "T", "E", "R", "D", "A", "Y">>
D_empty == <<>>
D_nextWeek == <<"n", "e", "x", "t", " ", "w", "e", "e", "k">>
D_padded == <<" ", "t", "o", "m", "o", "r", "r", "o", "w">>
D_slashes == <<"2", "0", "2", "4", "/", "0", "1", "/", "1", "5">>
D_shortYear == <<"2", "4", "-", "0", "1", "-", "1", "5">>
D_noZeros == <<"2", "0", "2", "4", "-", "1", "-", "1", "5">>
D_withTime == <<"2", "0", "2", "4", "-", "0", "1", "-", "1", "5", "T", "0", "0", ":", "0", "0">>
D_20230101 == <<"2", "0", "2", "3", "-", "0", "1", "-", "0", "1">>
D_20240114 == <<"2", "0", "2", "4", "-", "0", "1", "-", "1", "4">>
D_20240115 == <<"2", "0", "2", "4", "-", "0", "1", "-", "1", "5">>
D_20240116 == <<"2", "0", "2", "4", "-", "0", "1", "-", "1", "6">>
D_20250601 == <<"2", "0", "2", "5", "-", "0", "6", "-", "0", "1">>

\* The date property is absent from the arguments
NoDate == <<Undefined>>

NotLiterals == { D_today, D_Today, D_NOW, D_tomorrow, D_ToMorrow, D_yesterday, D_YESTERDAY, D_empty, D_nextWeek, D_padded, D_slashes, D_shortYear, D_noZeros, D_withTime }
Literals == { D_20230101, D_20240114, D_20240115, D_20240116, D_20250601 }

\* The date argument of a lookup
ToolDates == {NoDate} \cup NotLiterals \cup Literals

\* parseDate(dateStr = "today"), with today the reading of new Date()
parseDate(dateStr, today) ==
    LET str == IF dateStr = NoDate THEN D_today ELSE dateStr
        key == toLowerCase(str)
    IN
    IF key = D_today \/ key = toLowerCase(D_NOW)
    THEN [targetDate |-> NoDate, dateType |-> "current"]
    ELSE IF key = D_tomorrow
    THEN [targetDate |-> isoDate(setDateBy(today, 1)), dateType |-> "forecast"]
    ELSE IF key = D_yesterday
    THEN [targetDate |-> isoDate(setDateBy(today, -1)), dateType |-> "historical"]
    ELSE IF IsDateLiteral(str)
    THEN [targetDate |-> str,
          dateType |-> IF Before(dateOfLiteral(str), today)
                       THEN "historical" ELSE "forecast"]
    ELSE [targetDate |-> NoDate, dateType |-> "current"]

\* A call of parseDate at the present clock
ParseDate(dateStr) ==
    /\ ret' = [op |-> "parseDate", dateStr |-> dateStr]
                @@ parseDate(dateStr, Instant(now))
    /\ UNCHANGED <<now, sessions, client, storage, hasWindow, epochDay, tz, turn,
                 unswept, backend, callers>>

----------------------------------------------------------------------------
(* The POST handlers (one chat turn)                                        *)
(*   "route": src/app/api/chat-optimized/route.ts, POST                     *)
(*   "multi": src/app/compare/page.tsx, POST (the multi-city handler)       *)
(* A handler runs from await to await; turn.phase is the await it is        *)
(* suspended at: "first" (the first completion call), "tools" (the weather  *)
(* lookups), "second" (the second completion call); "returned" once it has  *)
(* handed back a response and "threw" when an exception left the handler.   *)
(* A text (a message content, a response text) is the tuple of its parts:   *)
(* the fixed wording and what is spliced into it.                           *)

Handlers == {"route", "multi"}

\* The messages of the request body
UserAsks == [role |-> "user", content |-> <<"Weather in Tokyo and Paris?">>]
AssistantSaid == [role |-> "assistant", content |-> <<"Which day?">>]
Histories == { <<>>, <<UserAsks>>, <<UserAsks, AssistantSaid>>,
               <<UserAsks, AssistantSaid, UserAsks>> }

\* req.json(): a body that does not parse, a body without messages, or a
\* body with its messages
Unparsable == [parsed |-> FALSE, hasMessages |-> FALSE, messages |-> <<>>]
NoMessages == [parsed |-> TRUE, hasMessages |-> FALSE, messages |-> <<>>]
Body(messages) == [parsed |-> TRUE, hasMessages |-> TRUE, messages |-> messages]
Bodies == {Unparsable, NoMessages} \cup {Body(messages) : messages \in Histories}

\* tool_calls[i].id and the parsed tool_calls[i].function.arguments
CallIds == <<"call_1", "call_2", "call_3", "call_4">>
ToolArgs ==
    << [location |-> "Tokyo", date |-> NoDate],
       [location |-> "Paris", date |-> D_tomorrow],
       [location |-> "Atlantis", date |-> D_yesterday],
       [location |-> "London", date |-> D_20240115] >>

\* function.arguments that JSON.parse rejects
Malformed == [malformed |-> TRUE]

\* completion.choices[0].message with n tool calls, the arguments of call
\* number bad (if any) malformed
AssistantMessage(n, bad) ==
    [ role |-> "assistant",
      content |-> IF n = 0 THEN <<"It is sunny in Tokyo.">> ELSE <<NullStr>>,
      tool_calls |-> [i \in 1..n |->
                        [id |-> CallIds[i],
                         arguments |-> IF i = bad THEN Malformed
                                       ELSE ToolArgs[i]]] ]

\* What a completion call comes back with: a transport failure, a
\* non-success status, a body without choices, or a message
Rejected == [failure |-> "transport"]
NotOk == [failure |-> "status"]
NoChoices == [failure |-> "choices"]
Failures == {Rejected, NotOk, NoChoices}

\* The system messages of the two completion requests
FirstPreamble(handler, language) ==
    [role |-> "system",
     content |-> <<"weather assistant", handler,
                   IF language = "ja" THEN "Japanese" ELSE "English">>]
SecondPreamble(handler, language) ==
    [role |-> "system",
     content |-> <<"format the weather data", handler,
                   IF language = "ja" THEN "Japanese" ELSE "English">>]

\* The texts of the responses
FallbackMessage(language) ==
    <<"an error occurred", IF language = "ja" THEN "ja" ELSE "en">>
DefaultMessage(language) ==
    <<"ask me anything", IF language = "ja" THEN "ja" ELSE "en">>
ToolErrorMessage(handler, language, location) ==
    IF handler = "route"
    THEN <<"could not get weather information for", location,
           IF language = "ja" THEN "ja" ELSE "en">>
    ELSE <<"could not get weather information",
           IF language = "ja" THEN "ja" ELSE "en">>

\* NextResponse.json(body, { status })
Json(body, status) == [status |-> status, body |-> body]
NoResponse == [status |-> 0, body |-> <<>>]

\* JSON.stringify(result)
stringify(result) == <<"json", result>>

\* The observation of a successful lookup: executeWeatherTool(params)
Observation(params) ==
    [city |-> params.location] @@ parseDate(params.date, Instant(now))

\* No POST handler is running
NoTurn ==
    [ phase |-> "idle", handler |-> "none", language |-> "en",
      messages |-> <<>>, message |-> Null,
      requests |-> <<>>,   \* the messages of each completion request sent
      lookups |-> <<>>,    \* per tool call: "none", "pending", "ok", "failed"
      started |-> <<>>,    \* the tool calls whose lookup was started, in order
      settled |-> <<>>,    \* the tool calls whose lookup settled, in order
      results |-> <<>>,    \* per tool call: the observation, once it is there
      response |-> NoResponse ]

\* The handler hands back a response / an exception leaves the handler
Returned(t, response) == [t EXCEPT !.phase = "returned", !.response = response]
Threw(t) == [t EXCEPT !.phase = "threw"]

\* Faulty variant: the generic apology goes out under the default status
outerCatchDefaultStatus(t) ==
    Returned(t, Json([response |-> FallbackMessage(t.language), error |-> TRUE],
                     200))

\* The outer catch: the generic apology under status 500
outerCatch(t) ==
    Returned(t, Json([response |-> FallbackMessage(t.language), error |-> TRUE],
                     500))

\* Faulty variant: the observations at hand go out with the error message
innerCatchPartial(t) ==
    Returned(t, Json([response |-> ToolErrorMessage(t.handler, t.language, ""),
                      error |-> TRUE,
                      weatherData |-> SelectSeq(t.results, LAMBDA r : r # Null)],
                     200))

\* The inner catch: the could-not-retrieve message, under the default status
innerCatch(t) ==
    LET location ==
          IF t.handler = "route" THEN t.message.tool_calls[1].arguments.location
          ELSE ""
    IN Returned(t, Json([response |-> ToolErrorMessage(t.handler, t.language,
                                                       location),
                         error |-> TRUE], 200))

\* POST up to the first completion call
post(handler, body, hasKey, language) ==
    LET t == [NoTurn EXCEPT !.handler = handler, !.language = language] IN
    IF ~body.parsed THEN Threw(t)
    ELSE IF ~hasKey
    THEN Returned(t, Json([error |-> <<"OpenAI API key not found">>], 500))
    ELSE IF ~body.hasMessages THEN Threw(t)
    ELSE LET messages == body.messages
             lastIsUser == Len(messages) > 0
                             /\ messages[Len(messages)].role = "user"
             tm == [t EXCEPT !.messages = messages]
         IN IF handler = "multi" /\ ~lastIsUser
            THEN Returned(tm, Json([response |-> DefaultMessage(language),
                                    toolUsed |-> FALSE], 200))
            ELSE [tm EXCEPT !.phase = "first",
                            !.requests = << <<FirstPreamble(handler, language)>>
                                              \o messages >>]

\* The lookups of the turn that have not settled yet
Pending(t) == {i \in 1..Len(t.lookups) : t.lookups[i] = "pending"}

\* The first completion call has returned a message with tool calls: the
\* handler parses the arguments and starts the lookups.  The route takes the
\* first tool call only and parses its arguments outside the inner try; the
\* multi-city handler maps every tool call to an async function that parses
\* the arguments and starts the lookup, and awaits them with Promise.all.
startLookups(t, message) ==
    LET calls == message.tool_calls
        n == Len(calls)
        bad(i) == calls[i].arguments = Malformed
        tm == [t EXCEPT !.message = message,
                        !.results = [i \in 1..n |-> Null]]
    IN
    IF t.handler = "route"
    THEN IF bad(1) THEN outerCatch(tm)
         ELSE [tm EXCEPT !.phase = "tools",
                         !.lookups = [i \in 1..n |->
                                        IF i = 1 THEN "pending" ELSE "none"],
                         !.started = <<1>>]
    ELSE LET tl == [tm EXCEPT
                      !.phase = "tools",
                      !.lookups = [i \in 1..n |->
                                     IF bad(i) THEN "failed" ELSE "pending"],
                      !.started = SelectSeq([i \in 1..n |-> i],
                                            LAMBDA i : ~bad(i))]
         IN IF \E i \in 1..n : bad(i) THEN innerCatch(tl) ELSE tl

\* Faulty variant: a direct answer is replaced by the default greeting
firstReturnsGreeting(t, outcome) ==
    IF outcome \in Failures THEN outerCatch(t)
    ELSE IF Len(outcome.tool_calls) > 0 THEN startLookups(t, outcome)
    ELSE Returned([t EXCEPT !.message = outcome],
                  Json([response |-> DefaultMessage(t.language),
                        toolUsed |-> FALSE], 200))

\* The first completion call comes back
firstReturns(t, outcome) ==
    IF outcome \in Failures THEN outerCatch(t)
    ELSE IF Len(outcome.tool_calls) > 0 THEN startLookups(t, outcome)
    ELSE Returned([t EXCEPT !.message = outcome],
                  Json([response |-> outcome.content, toolUsed |-> FALSE], 200))

\* Faulty variant: the results are collected in the order the lookups settle
toolResultsAsSettled(t) ==
    [k \in 1..Len(t.settled) |->
        [tool_call_id |-> t.message.tool_calls[t.settled[k]].id,
         result |-> t.results[t.settled[k]]]]

\* The array Promise.all resolves to: one entry per tool call, in the order
\* of the tool calls
toolResults(t) ==
    [i \in 1..Len(t.message.tool_calls) |->
        [tool_call_id |-> t.message.tool_calls[i].id,
         result |-> t.results[i]]]

\* The tool messages of the second completion request
toolMessages(t) ==
    IF t.handler = "route"
    THEN << [role |-> "tool",
             tool_call_id |-> t.message.tool_calls[1].id,
             content |-> stringify(t.results[1])] >>
    ELSE LET all == toolResults(t) IN
         [i \in 1..Len(all) |->
            [role |-> "tool",
             tool_call_id |-> all[i].tool_call_id,
             content |-> stringify(all[i].result)]]

\* The messages of the second completion request
secondRequest(t) ==
    <<SecondPreamble(t.handler, t.language)>> \o t.messages
        \o <<t.message>> \o toolMessages(t)

\* The lookup of tool call i settles, with an observation or with an error.
\* Once the handler has left the await, a lookup still in flight settles
\* unobserved.
lookupSettles(t, i, ok) ==
    LET ts == [t EXCEPT !.lookups[i] = IF ok THEN "ok" ELSE "failed",
                        !.settled = Append(@, i),
                        !.results[i] =
                            IF ok
                            THEN Observation(t.message.tool_calls[i].arguments)
                            ELSE Null]
    IN
    IF t.phase # "tools" THEN ts
    ELSE IF ~ok THEN innerCatch(ts)
    ELSE IF Pending(ts) # {} THEN ts
    ELSE [ts EXCEPT !.phase = "second",
                    !.requests = Append(@, secondRequest(ts))]

\* The message of a second completion
FormattedMessage ==
    [role |-> "assistant", content |-> <<"Tokyo is warmer than Paris.">>,
     tool_calls |-> <<>>]

\* Faulty variant: a failed second completion call is sent once more
secondReturnsRetry(t, outcome) ==
    IF outcome \in Failures /\ Len(t.requests) < 3
    THEN [t EXCEPT !.requests = Append(@, secondRequest(t))]
    ELSE innerCatch(t)

\* Faulty variant: the response counts one tool whatever was executed
secondReturnsOneTool(t, outcome) ==
    IF outcome \in Failures THEN innerCatch(t)
    ELSE Returned(t, Json([response |-> outcome.content,
                           weatherData |-> <<t.results[1]>>,
                           toolsUsed |-> 1,
                           multiCity |-> FALSE], 200))

\* The second completion call comes back; its failures are thrown inside
\* the inner try
secondReturns(t, outcome) ==
    IF outcome \in Failures THEN innerCatch(t)
    ELSE IF t.handler = "route"
    THEN Returned(t, Json([response |-> outcome.content,
                           weatherData |-> t.results[1],
                           toolUsed |-> TRUE], 200))
    ELSE LET all == toolResults(t) IN
         Returned(t, Json([response |-> outcome.content,
                           weatherData |-> [i \in 1..Len(all) |-> all[i].result],
                           toolsUsed |-> Len(all),
                           multiCity |-> Len(all) > 1], 200))

\* The steps of a handler
Post(handler, body, hasKey, language) ==
    /\ turn.phase = "idle"
    /\ turn' = post(handler, body, hasKey, language)
    /\ UNCHANGED <<now, sessions, client, storage, hasWindow, ret, epochDay, tz,
                 unswept, backend, callers>>

FirstReturns(outcome) ==
    /\ turn.phase = "first"
    /\ turn' = firstReturns(turn, outcome)
    /\ UNCHANGED <<now, sessions, client, storage, hasWindow, ret, epochDay, tz,
                 unswept, backend, callers>>

LookupSettles(i, ok) ==
    /\ i \in Pending(turn)
    /\ turn' = lookupSettles(turn, i, ok)
    /\ UNCHANGED <<now, sessions, client, storage, hasWindow, ret, epochDay, tz,
                 unswept, backend, callers>>

SecondReturns(outcome) ==
    /\ turn.phase = "second"
    /\ turn' = secondReturns(turn, outcome)
    /\ UNCHANGED <<now, sessions, client, storage, hasWindow, ret, epochDay, tz,
                 unswept, backend, callers>>

----------------------------------------------------------------------------
(* Initial state: the module has just been loaded, nothing is persisted,    *)
(* no request is being handled.  The clock starts at 2024-01-01T00:00Z, the *)
(* first of the dates of AllDates.                                          *)

\* 2024-01-01, in days since 1970-01-01
EpochDay == 19723

\* No message has been submitted, no turn runs beside another
NoChat == [phase |-> "idle", messages |-> <<>>]
NoInflight ==
    [sid |-> UnknownSid, base |-> [s \in {} |-> Null], todo |-> {}, done |-> {}]

\* The second store before any call
NoTwin == [sessions |-> [s \in {} |-> Null], ret |-> Ret("load", NoSid, FALSE)]

Init ==
    /\ now = 0
    /\ sessions = [s \in {} |-> Null]
    /\ client = FreshContext(0, "ja")
    /\ storage = <<>>
    /\ hasWindow \in BOOLEAN
    /\ ret = Ret("load", NoSid, FALSE)
    /\ epochDay = EpochDay
    /\ tz = UTC
    /\ turn = NoTurn
    /\ unswept = NoTwin
    /\ backend = "ok"
    /\ chat = NoChat /\ held = NoHeld /\ inflight = NoInflight

\* The server runtime: no window, the ContextManager persists nothing
InitServer == Init /\ hasWindow = FALSE

\* The ids a caller may pass: every id of the registry and one unknown id
SidArgs == DOMAIN sessions \cup {UnknownSid}

messageCountOf(sid) == sessions[sid].context.session.messageCount

----------------------------------------------------------------------------
(* Inputs of the registry runs *)

\* A seed that carries its own session record, stamped at time 0
StaleSessionSeed ==
    [k \in {"session"} |->
        [startTime |-> 0, lastActivity |-> 0, messageCount |-> 0]]

\* A partial that carries a session record of its own besides preferences
StaleSessionPartial ==
    [ session |-> [startTime |-> 0, lastActivity |-> 0, messageCount |-> 5],
      preferences |-> [language |-> "en", units |-> "imperial",
                       detailLevel |-> "detailed", favoriteLocations |-> <<>>] ]

\* A partial that replaces the preferences
JaPreferencesPartial ==
    [k \in {"preferences"} |->
        [language |-> "ja", units |-> "metric", detailLevel |-> "basic",
         favoriteLocations |-> <<>>]]

Seeds == {EmptyPartial, StaleSessionSeed}
Partials == {EmptyPartial, StaleSessionPartial, JaPreferencesPartial}

ClockBudget(sid) ==
    sid \in DOMAIN sessions => messageCountOf(sid) < ClockMaxMessages

RECURSIVE SumMessages(_)
SumMessages(sids) ==
    IF sids = {} THEN 0
    ELSE LET sid == CHOOSE x \in sids : TRUE
         IN messageCountOf(sid) + SumMessages(sids \ {sid})

\* The registry runs stop updating live sessions once the sessions of the
\* registry have counted RegMaxMessages messages between them; a call on an
\* id that names no live session counts nothing and is always offered.
RegBudget(sid) ==
    (sid \in DOMAIN sessions /\ now <= sessions[sid].expiresAt) =>
        SumMessages(DOMAIN sessions) < RegMaxMessages

----------------------------------------------------------------------------
(* Spec: one session at a time under a moving clock; the clock may also     *)
(* advance between the clock readings of one handler.                       *)

ClockCreate ==
    \E seed \in Seeds, clk \in ClockReads(2) :
        /\ DOMAIN sessions = {}
        /\ CreateSession(seed, 1, clk)

ClockGet == \E sid \in SidArgs : GetSession(sid)

ClockUpdate ==
    \E sid \in SidArgs, updates \in Partials, clk \in ClockReads(4) :
        ClockBudget(sid) /\ UpdateSession(sid, updates, clk)

ClockUpdateLocation ==
    \E sid \in SidArgs, clk \in ClockReads(5) :
        ClockBudget(sid) /\ UpdateLocation(sid, AllLocations[1], clk)

ClockUpdateTemporal ==
    \E sid \in SidArgs, clk \in ClockReads(6) :
        ClockBudget(sid) /\ UpdateTemporal(sid, "forecast", AllDates[1], clk)

ClockUpdateConversation ==
    \E sid \in SidArgs, clk \in ClockReads(6) :
        ClockBudget(sid) /\ UpdateConversation(sid, Q_Tomorrow, "weather", clk)

ClockTick ==
    \E d \in {1, SESSION_TIMEOUT} :
        /\ d = 1 => Jitter(now) < MaxJitter
        /\ d = SESSION_TIMEOUT => Day(now) < ClockMaxDays
        /\ Tick(d)

Next ==
    \/ ClockCreate
    \/ ClockGet
    \/ ClockUpdate
    \/ ClockUpdateLocation
    \/ ClockUpdateTemporal
    \/ ClockUpdateConversation
    \/ ClockTick

Spec == InitServer /\ [][Next]_vars

----------------------------------------------------------------------------
(* SpecRegistry: several sessions side by side.  The clock moves between    *)
(* calls only, by whole timeouts, so that a session created on an earlier   *)
(* day expires while a later one is live.                                   *)

RegCreate ==
    /\ Cardinality(DOMAIN sessions) < MaxSessions
    /\ CreateSession(EmptyPartial, 1, Steady(2))

RegGet == \E sid \in SidArgs : GetSession(sid)

RegUpdate ==
    \E sid \in SidArgs :
        RegBudget(sid) /\ UpdateSession(sid, StaleSessionPartial, Steady(4))

RegUpdateLocation ==
    \E sid \in SidArgs :
        RegBudget(sid) /\ UpdateLocation(sid, AllLocations[1], Steady(5))

RegUpdateTemporal ==
    \E sid \in SidArgs :
        RegBudget(sid) /\ UpdateTemporal(sid, "forecast", AllDates[1], Steady(6))

RegUpdateConversation ==
    \E sid \in SidArgs :
        RegBudget(sid) /\ UpdateConversation(sid, Q_Tomorrow, "weather", Steady(6))

RegTick == Day(now) < RegMaxDays /\ Tick(SESSION_TIMEOUT)

NextRegistry ==
    \/ RegCreate
    \/ RegGet
    \/ RegUpdate
    \/ RegUpdateLocation
    \/ RegUpdateTemporal
    \/ RegUpdateConversation
    \/ RegTick

SpecRegistry == InitServer /\ [][NextRegistry]_vars

----------------------------------------------------------------------------
(* SpecLoc: sequences of updateLocation calls on one store, either one      *)
(* session of the SessionStore (server runtime) or the ContextManager       *)
(* (browser runtime).  The two stores share no state, so a run drives one   *)
(* of them.  The clock stands still.  Location records are first used in    *)
(* the order of AllLocations; a record used before may be used again at     *)
(* any time.                                                                *)

\* The position in AllLocations of a stored location record
IndexOfLocation(loc) ==
    CHOOSE i \in 1..Len(AllLocations) :
        /\ SamePlace(AllLocations[i], loc)
        /\ AllLocations[i].latitude = loc.latitude
        /\ AllLocations[i].longitude = loc.longitude

RECURSIVE MaxIndex(_)
MaxIndex(recent) ==
    IF recent = <<>> THEN 0
    ELSE LET i == IndexOfLocation(Head(recent))
             m == MaxIndex(Tail(recent))
         IN IF i > m THEN i ELSE m

\* The records a run may pass next, given the recent list of the store
OfferedLocations(recent) ==
    {AllLocations[i] : i \in 1..Min(MaxLoc, MaxIndex(recent) + 1)}

LocCreate ==
    /\ ~hasWindow
    /\ DOMAIN sessions = {}
    /\ CreateSession(EmptyPartial, 1, Steady(2))

LocUpdate ==
    \E sid \in DOMAIN sessions :
      \E location \in OfferedLocations(sessions[sid].context.location.recent) :
        /\ ~hasWindow
        /\ messageCountOf(sid) < LocMaxOps
        /\ UpdateLocation(sid, location, Steady(5))

LocClientUpdate ==
    \E location \in OfferedLocations(client.location.recent) :
        /\ hasWindow
        /\ Len(client.conversation.conversationFlow) < LocMaxOps
        /\ CMUpdateLocation(location, Steady(3))

NextLoc == LocCreate \/ LocUpdate \/ LocClientUpdate

SpecLoc == Init /\ [][NextLoc]_vars

----------------------------------------------------------------------------
(* SpecDates: sequences of temporal updates on one store, a session of the  *)
(* SessionStore (server runtime) or the ContextManager (browser runtime).   *)
(* The clock stands still.  Dates are first used in the order of AllDates;  *)
(* the date used again is the least recently used one of the list.  Besides *)
(* the dated updates there are updates without a date, with an empty date,  *)
(* and with the timeframe current together with a date.                     *)

IndexOfDate(date) == CHOOSE i \in 1..Len(AllDates) : AllDates[i] = date

RECURSIVE MaxDateIndex(_)
MaxDateIndex(recentDates) ==
    IF recentDates = <<>> THEN 0
    ELSE LET i == IndexOfDate(Head(recentDates).date)
             m == MaxDateIndex(Tail(recentDates))
         IN IF i > m THEN i ELSE m

\* The timeframe a run passes with a date
TimeframeOf(date) == IF IndexOfDate(date) % 2 = 1 THEN "historical" ELSE "forecast"

\* The relative expression a run passes with a date
RelativeOf(date) == IF date = AllDates[2] THEN "tomorrow" ELSE Undefined

\* The (timeframe, targetDate) pairs a run may pass next
OfferedTemporal(recentDates) ==
    LET fresh == MaxDateIndex(recentDates) + 1
        dates == (IF fresh <= MaxDates THEN {AllDates[fresh]} ELSE {})
                 \cup (IF recentDates = <<>> THEN {}
                       ELSE {recentDates[Len(recentDates)].date})
    IN {<<TimeframeOf(d), d>> : d \in dates}
         \cup { <<"current", Undefined>>, <<"current", "">>,
                <<"forecast", Undefined>>, <<"current", AllDates[1]>> }

DatesCreate ==
    /\ ~hasWindow
    /\ DOMAIN sessions = {}
    /\ CreateSession(EmptyPartial, 1, Steady(2))

DatesUpdate ==
    \E sid \in DOMAIN sessions :
      \E a \in OfferedTemporal(sessions[sid].context.temporal.recentDates) :
        /\ ~hasWindow
        /\ messageCountOf(sid) < DateMaxOps
        /\ UpdateTemporal(sid, a[1], a[2], Steady(6))

DatesClientUpdate ==
    \E a \in OfferedTemporal(client.temporal.recentDates) :
        /\ hasWindow
        /\ Len(client.conversation.conversationFlow) < DateMaxOps
        /\ CMUpdateTemporalContext(a[1], a[2], RelativeOf(a[2]), Steady(3))

NextDates == DatesCreate \/ DatesUpdate \/ DatesClientUpdate

SpecDates == Init /\ [][NextDates]_vars

----------------------------------------------------------------------------
(* SpecResolve: the two resolvers over stores with and without a current    *)
(* location: one session that may be given a location and may expire, and   *)
(* the client store.  The clock moves between calls, by whole timeouts.     *)

\* Varanasi and Tokyo
ResolveLocations == {AllLocations[6], AllLocations[1]}

ResCreate ==
    /\ DOMAIN sessions = {}
    /\ CreateSession(EmptyPartial, 1, Steady(2))

ResUpdateLocation ==
    \E sid \in DOMAIN sessions, location \in ResolveLocations :
        /\ messageCountOf(sid) < RegMaxMessages
        /\ UpdateLocation(sid, location, Steady(5))

ResClientUpdateLocation ==
    \E location \in ResolveLocations :
        /\ Len(client.conversation.conversationFlow) < RegMaxMessages
        /\ CMUpdateLocation(location, Steady(3))

ResResolveWithSession ==
    \E sid \in SidArgs, query \in Queries, language \in Languages :
        ResolveContextWithSession(sid, query, language)

ResResolveImplicit ==
    \E query \in Queries, language \in Languages :
        ResolveImplicitContext(query, language)

ResTick == Day(now) < RegMaxDays /\ Tick(SESSION_TIMEOUT)

NextResolve ==
    \/ ResCreate
    \/ ResUpdateLocation
    \/ ResClientUpdateLocation
    \/ ResResolveWithSession
    \/ ResResolveImplicit
    \/ ResTick

SpecResolve == Init /\ [][NextResolve]_vars

----------------------------------------------------------------------------
(* SpecParseDate: the date classifier under a moving clock.  A run starts   *)
(* at midnight UTC of one of four days, in one of the zones; the clock      *)
(* moves by eight hours or by a millisecond between the calls.              *)

\* 2023-01-01, 2024-01-15, 2024-03-31 and 2025-06-01
ParseDays ==
    { DaysFromCivil(2023, 1, 1), DaysFromCivil(2024, 1, 15),
      DaysFromCivil(2024, 3, 31), DaysFromCivil(2025, 6, 1) }

InitParse ==
    /\ now = 0
    /\ sessions = [s \in {} |-> Null]
    /\ client = FreshContext(0, "ja")
    /\ storage = <<>>
    /\ hasWindow = FALSE
    /\ ret = Ret("load", NoSid, FALSE)
    /\ epochDay \in ParseDays
    /\ tz \in Zones
    /\ turn = NoTurn
    /\ unswept = NoTwin
    /\ backend = "ok"
    /\ chat = NoChat /\ held = NoHeld /\ inflight = NoInflight

ParseCall == \E dateStr \in ToolDates : ParseDate(dateStr)

ParseTick ==
    /\ now \div (8 * HourMs) < ParseMaxTicks
    /\ Tick(8 * HourMs)

ParseTickMs ==
    /\ now % HourMs < ParseMaxJitter
    /\ Tick(1)

NextParse ==
    \/ ParseCall
    \/ ParseTick
    \/ ParseTickMs

SpecParseDate == InitParse /\ [][NextParse]_vars

----------------------------------------------------------------------------
(* SpecTurn: one turn of either handler, from the request to the response,  *)
(* with every outcome of the completion calls and of the lookups, the       *)
(* lookups of the multi-city handler settling in any order.                 *)

\* The messages a first completion may return: a direct answer, or up to
\* MaxCalls tool calls of which at most one has malformed arguments
FirstMessages ==
    { AssistantMessage(n, bad) :
        n \in 0..Min(MaxCalls, Len(CallIds)), bad \in 0..Min(MaxCalls, Len(CallIds)) }

TurnPost ==
    \E handler \in Handlers, body \in Bodies, hasKey \in BOOLEAN,
       language \in Languages :
        Post(handler, body, hasKey, language)

TurnFirstReturns ==
    \E outcome \in Failures \cup FirstMessages : FirstReturns(outcome)

TurnLookupSettles ==
    \E i \in 1..Len(turn.lookups), ok \in BOOLEAN : LookupSettles(i, ok)

TurnSecondReturns ==
    \E outcome \in Failures \cup {FormattedMessage} : SecondReturns(outcome)

NextTurn ==
    \/ TurnPost
    \/ TurnFirstReturns
    \/ TurnLookupSettles
    \/ TurnSecondReturns

SpecTurn == InitServer /\ [][NextTurn]_vars

----------------------------------------------------------------------------
(* SpecSweep: the registry with its hourly sweep.  Every call goes to two   *)
(* stores alike: sessions, which is swept at arbitrary points, and unswept, *)
(* which never is.  The clock moves between calls, by whole timeouts.  A    *)
(* session is seeded with lists of its own only before the clock has moved. *)

\* A seed and a partial whose lists are longer than the mutators leave them:
\* six recent locations, the first and the fourth being the same place
CrowdedLocation ==
    [ current |-> AllLocations[1],
      recent |-> SubSeq(AllLocations, 1, 6),
      preferences |-> <<>> ]
CrowdedSeed == [k \in {"location"} |-> CrowdedLocation]
CrowdedPartial == [k \in {"location"} |-> CrowdedLocation]

SweepSeeds == {EmptyPartial, CrowdedSeed}
SweepPartials == {StaleSessionPartial, CrowdedPartial}

\* The ids a caller may hold: every id still in one of the stores, and one
\* unknown id
SweepSids == DOMAIN sessions \cup DOMAIN unswept.sessions \cup {UnknownSid}

RECURSIVE MessagesIn(_, _)
MessagesIn(S, sids) ==
    IF sids = {} THEN 0
    ELSE LET sid == CHOOSE x \in sids : TRUE
         IN S[sid].context.session.messageCount + MessagesIn(S, sids \ {sid})

\* The runs stop updating live sessions once the sessions of the unswept
\* store have counted SweepMaxMessages messages between them
SweepBudget(sid) ==
    (sid \in DOMAIN unswept.sessions /\ now <= unswept.sessions[sid].expiresAt) =>
        MessagesIn(unswept.sessions, DOMAIN unswept.sessions) < SweepMaxMessages

\* One call, made on both stores: r1 is its outcome on sessions, r2 its
\* outcome on unswept
OnBoth(op, sid, r1, r2) ==
    /\ sessions' = r1.S
    /\ ret' = Ret(op, sid, r1.found)
    /\ unswept' = [sessions |-> r2.S, ret |-> Ret(op, sid, r2.found)]
    /\ UNCHANGED <<now, client, storage, hasWindow, epochDay, tz, turn, backend,
                 callers>>

SweepCreate ==
    \E seed \in SweepSeeds :
        /\ Cardinality(DOMAIN unswept.sessions) < MaxSessions
        /\ seed # EmptyPartial => now = 0
        /\ LET r1 == createSessionR(sessions, seed, 1, now, now)
               r2 == createSessionR(unswept.sessions, seed, 1, now, now)
           IN OnBoth("createSession", r1.sid,
                     [S |-> r1.S, found |-> TRUE], [S |-> r2.S, found |-> TRUE])

SweepGet ==
    \E sid \in SweepSids :
        OnBoth("getSession", sid, getSessionR(sessions, sid, now),
               getSessionR(unswept.sessions, sid, now))

SweepUpdate ==
    \E sid \in SweepSids, updates \in SweepPartials :
        /\ SweepBudget(sid)
        /\ OnBoth("updateSession", sid,
                  updateSessionR(sessions, sid, updates, now, now, now, now),
                  updateSessionR(unswept.sessions, sid, updates, now, now, now, now))

SweepUpdateLocation ==
    \E sid \in SweepSids :
        /\ SweepBudget(sid)
        /\ OnBoth("updateLocation", sid,
                  updateLocationR(sessions, sid, AllLocations[2], Steady(5)),
                  updateLocationR(unswept.sessions, sid, AllLocations[2], Steady(5)))

SweepUpdateTemporal ==
    \E sid \in SweepSids :
        /\ SweepBudget(sid)
        /\ OnBoth("updateTemporal", sid,
                  updateTemporalR(sessions, sid, "forecast", AllDates[1], Steady(6)),
                  updateTemporalR(unswept.sessions, sid, "forecast", AllDates[1],
                                  Steady(6)))

SweepUpdateConversation ==
    \E sid \in SweepSids :
        /\ SweepBudget(sid)
        /\ OnBoth("updateConversation", sid,
                  updateConversationR(sessions, sid, Q_Tomorrow, "weather", Steady(6)),
                  updateConversationR(unswept.sessions, sid, Q_Tomorrow, "weather",
                                      Steady(6)))

\* The interval timer fires: cleanup() runs on the swept store
SweepCleanup == Cleanup

SweepTick == Day(now) < RegMaxDays /\ Tick(SESSION_TIMEOUT)

NextSweep ==
    \/ SweepCreate
    \/ SweepGet
    \/ SweepUpdate
    \/ SweepUpdateLocation
    \/ SweepUpdateTemporal
    \/ SweepUpdateConversation
    \/ SweepCleanup
    \/ SweepTick

SpecSweep == InitServer /\ [][NextSweep]_vars

----------------------------------------------------------------------------
(* SpecFlow: long sequences of mutator calls on one store, a session of the *)
(* SessionStore (server runtime) or the ContextManager (browser runtime),   *)
(* with one millisecond between two calls, so that every flow entry has a   *)
(* timestamp of its own.  The kinds of calls follow each other in a fixed   *)
(* order with any number of calls of each kind; a call that appends no      *)
(* entry is made on the empty flow and once on the full flow.               *)

\* The session has been called messageCount times; the next call is due
\* once the clock shows that many milliseconds
SessionDue(sid) == now = messageCountOf(sid)

\* The client store stamps lastActivity in every call; its first call is
\* due at once
ClientDue ==
    \/ client.session.lastActivity < now
    \/ now = 0 /\ client.conversation.conversationFlow = <<>>

\* The kind of the newest flow entry: 1 location, 2 date, 3 intent; 0 when
\* the flow is empty
LastKind(flow) ==
    IF flow = <<>> THEN 0
    ELSE CASE flow[Len(flow)].type = "location" -> 1
           [] flow[Len(flow)].type = "date" -> 2
           [] flow[Len(flow)].type = "intent" -> 3

\* The intents a run may pass next: weather, then travel
OfferedIntents(flow) ==
    IF flow # <<>> /\ flow[Len(flow)].value = "travel" THEN {"travel"}
    ELSE {"weather", "travel"}

FlowCreate ==
    /\ ~hasWindow
    /\ DOMAIN sessions = {}
    /\ CreateSession(EmptyPartial, 1, Steady(2))

FlowUpdateLocation ==
    \E sid \in DOMAIN sessions :
        /\ SessionDue(sid) /\ now < FlowMaxOps
        /\ sessions[sid].context.conversation.conversationFlow = <<>>
        /\ UpdateLocation(sid, AllLocations[1], Steady(5))

FlowUpdateTemporal ==
    \E sid \in DOMAIN sessions :
        /\ SessionDue(sid) /\ now < FlowMaxOps
        /\ sessions[sid].context.conversation.conversationFlow = <<>>
        /\ UpdateTemporal(sid, "forecast", AllDates[1], Steady(6))

FlowUpdateConversation ==
    \E sid \in DOMAIN sessions :
      \E intent \in OfferedIntents(
                      sessions[sid].context.conversation.conversationFlow) :
        /\ SessionDue(sid) /\ now < FlowMaxOps
        /\ UpdateConversation(sid, Q_Tomorrow, intent, Steady(6))

FlowClientUpdateLocation ==
    /\ hasWindow /\ ClientDue /\ now < FlowMaxOps
    /\ LastKind(client.conversation.conversationFlow) <= 1
    /\ CMUpdateLocation(AllLocations[1], Steady(3))

FlowClientUpdateTemporal ==
    \E a \in {<<"forecast", AllDates[1]>>, <<"current", Undefined>>} :
        /\ hasWindow /\ ClientDue /\ now < FlowMaxOps
        /\ LastKind(client.conversation.conversationFlow) <= 2
        /\ a[1] = "current" =>
              \/ client.conversation.conversationFlow = <<>>
              \/ /\ Len(client.conversation.conversationFlow) = 20
                 /\ client.temporal.currentTimeframe # "current"
        /\ CMUpdateTemporalContext(a[1], a[2], Undefined, Steady(3))

FlowClientUpdateConversation ==
    \E intent \in OfferedIntents(client.conversation.conversationFlow) :
        /\ hasWindow /\ ClientDue /\ now < FlowMaxOps
        /\ CMUpdateConversationContext(Q_Tomorrow, intent, Undefined, Steady(2))

FlowTick ==
    /\ IF hasWindow THEN ~ClientDue
       ELSE \E sid \in DOMAIN sessions : ~SessionDue(sid)
    /\ Tick(1)

NextFlow ==
    \/ FlowCreate
    \/ FlowUpdateLocation
    \/ FlowUpdateTemporal
    \/ FlowUpdateConversation
    \/ FlowClientUpdateLocation
    \/ FlowClientUpdateTemporal
    \/ FlowClientUpdateConversation
    \/ FlowTick

SpecFlow == Init /\ [][NextFlow]_vars

----------------------------------------------------------------------------
(* SpecStore: the life of the client store: mutators, clearContext and      *)
(* page loads, in a runtime without window, in a browser whose storage      *)
(* works, fills up, or denies access.  The clock moves between calls, by a  *)
(* millisecond or by the expiry window.                                     *)

Backends == {"ok", "full", "denied"}

\* A stored snapshot that was not written by persistContext: its session
\* record has no lastActivity
NoActivitySnapshot ==
    [ location |-> [current |-> AllLocations[5], recent |-> <<AllLocations[5]>>,
                    preferences |-> <<>>],
      session |-> [startTime |-> 0, messageCount |-> 3] ]

InitStore ==
    /\ now = 0
    /\ sessions = [s \in {} |-> Null]
    /\ client = FreshContext(0, "ja")
    /\ storage = <<>>
    /\ hasWindow \in BOOLEAN
    /\ ret = Ret("load", NoSid, FALSE)
    /\ epochDay = EpochDay
    /\ tz = UTC
    /\ turn = NoTurn
    /\ unswept = NoTwin
    /\ backend \in IF hasWindow THEN {"ok", "denied"} ELSE {"ok"}
    /\ chat = NoChat /\ held = NoHeld /\ inflight = NoInflight

StoreBudget == Len(client.conversation.conversationFlow) < StoreMaxOps

StoreUpdateLocation ==
    StoreBudget /\ CMUpdateLocation(AllLocations[1], Steady(3))

StoreUpdateTemporal ==
    /\ StoreBudget
    /\ CMUpdateTemporalContext("forecast", AllDates[2], "tomorrow", Steady(3))

StoreUpdateConversation ==
    /\ StoreBudget
    /\ CMUpdateConversationContext(Q_Tomorrow, "weather", Undefined, Steady(2))

StoreUpdatePreferences ==
    CMUpdatePreferences([k \in {"units"} |-> "imperial"], Steady(1))

StoreClear == ClearContext(Steady(1))

StoreReload == Construct(Steady(3))

\* Other data of the origin uses up the quota: from now on setItem throws
StoreFills ==
    /\ hasWindow /\ backend = "ok" /\ storage # <<>>
    /\ backend' = "full"
    /\ UNCHANGED <<now, sessions, client, storage, hasWindow, ret, epochDay, tz,
                   turn, unswept, callers>>

\* Something else writes under the storage key
StoreForeignWrite ==
    \E stored \in {Garbled, NoActivitySnapshot} :
        /\ hasWindow /\ backend = "ok"
        /\ storage' = <<stored>>
        /\ UNCHANGED <<now, sessions, client, hasWindow, ret, epochDay, tz,
                       turn, unswept, backend, callers>>

StoreTick ==
    \E d \in {1, SESSION_TIMEOUT} :
        /\ d = 1 => Jitter(now) < StoreMaxJitter
        /\ d = SESSION_TIMEOUT => Day(now) < StoreMaxDays
        /\ Tick(d)

NextStore ==
    \/ StoreUpdateLocation
    \/ StoreUpdateTemporal
    \/ StoreUpdateConversation
    \/ StoreUpdatePreferences
    \/ StoreClear
    \/ StoreReload
    \/ StoreFills
    \/ StoreForeignWrite
    \/ StoreTick

SpecStore == InitStore /\ [][NextStore]_vars

\* A call of getSession or of a mutator on sid, with the inputs of the
\* registry runs
RegCall(sid) ==
    \/ GetSession(sid)
    \/ UpdateSession(sid, StaleSessionPartial, Steady(4))
    \/ UpdateLocation(sid, AllLocations[1], Steady(5))
    \/ UpdateTemporal(sid, "forecast", AllDates[1], Steady(6))
    \/ UpdateConversation(sid, Q_Tomorrow, "weather", Steady(6))

----------------------------------------------------------------------------
(* Claims C3 - C7: expiry and the registry *)

UpdateOps ==
    {"updateSession", "updateLocation", "updateTemporal", "updateConversation"}

\* A step in which one of the four mutators returned the session sid.  (A
\* successful mutator always rewrites the entry; the passing of time and the
\* other calls either leave the registry alone or return under another name.)
UpdateReturned(sid) ==
    /\ ret'.op \in UpdateOps /\ ret'.sid = sid /\ ret'.found
    /\ sessions' # sessions

\* sid names no session, or a session whose expiresAt has passed
Dead(sid) == sid \notin DOMAIN sessions \/ now > sessions[sid].expiresAt

\* C3: for a session present in the registry, getSession returns the session
\* (and leaves it stored) whenever now <= expiresAt, and returns NotFound
\* whenever now > expiresAt; never NotFound before expiresAt has passed.
C3_GetSessionExpiry ==
    [][ \A sid \in DOMAIN sessions :
          GetSession(sid) =>
            /\ now <= sessions[sid].expiresAt =>
                  ret'.found /\ sid \in DOMAIN sessions'
            /\ now > sessions[sid].expiresAt => ~ret'.found ]_vars

\* C3 witness: getSession has returned NotFound for a session that was
\* stored and whose expiry has passed.
C3_Witness ==
    /\ ret.op = "getSession" /\ ~ret.found
    /\ ret.sid # UnknownSid /\ ret.sid \notin DOMAIN sessions
    /\ now > ret.sid[1] + SESSION_TIMEOUT

\* C4: getSession and the four mutators, called with an unknown or expired
\* id, return NotFound, do not throw, and leave every other session of the
\* registry as it was; only the expired entry itself is removed.
C4_DeadIdIsNotFound ==
    [][ \A sid \in SidArgs :
          (Dead(sid) /\ RegCall(sid)) =>
            /\ ~ret'.found /\ ~ret'.threw
            /\ DOMAIN sessions' = DOMAIN sessions \ {sid}
            /\ \A other \in DOMAIN sessions' :
                  sessions'[other] = sessions[other] ]_vars

\* C4 witness: a mutator was refused on an expired id while another session,
\* which has been updated before, is still stored.
C4_Witness ==
    /\ ret.op \in UpdateOps
    /\ ~ret.found /\ ret.sid # UnknownSid
    /\ \E other \in DOMAIN sessions :
          /\ other # ret.sid
          /\ messageCountOf(other) > 0
          /\ now <= sessions[other].expiresAt

\* C5: a successful update of a live session (updateSession with any
\* partial, updateLocation, updateTemporal, updateConversation) increments
\* messageCount by exactly 1 and sets expiresAt to 24h after the instant
\* the handler reads the clock for it, which is the clock at its return.
C5_UpdateCountsOnce ==
    [][ \A sid \in DOMAIN sessions :
          UpdateReturned(sid) =>
            /\ sessions'[sid].context.session.messageCount =
                  sessions[sid].context.session.messageCount + 1
            /\ sessions'[sid].expiresAt = now' + SESSION_TIMEOUT ]_vars

\* C5 witness: updateSession succeeded with a partial that carries its own
\* session record, on a session that had counted no message.
C5_Witness ==
    /\ ret.op = "updateSession" /\ ret.found
    /\ ret.sid \in DOMAIN sessions
    /\ sessions[ret.sid].context.preferences.units = "imperial"
    /\ messageCountOf(ret.sid) = 1

\* C6 as stated: a successful getSession recomputes expiresAt to now + TTL.
C6_ReadSlidesExpiry ==
    [][ \A sid \in DOMAIN sessions :
          (GetSession(sid) /\ ret'.found) =>
            sessions'[sid].expiresAt = now + SESSION_TIMEOUT ]_vars

\* C6 amended: expiration slides on mutation only.  A successful getSession
\* leaves the session, and so its expiresAt, exactly as recorded at creation
\* or at the last successful update.
C6_ReadKeepsExpiry ==
    [][ \A sid \in DOMAIN sessions :
          (GetSession(sid) /\ ret'.found) =>
            /\ sid \in DOMAIN sessions'
            /\ sessions'[sid] = sessions[sid] ]_vars

\* C6 witness: a session was read successfully later than its last update,
\* and its expiry is still the one recorded then.
C6_Witness ==
    /\ ret.op = "getSession" /\ ret.found
    /\ ret.sid \in DOMAIN sessions
    /\ now > sessions[ret.sid].lastActivity
    /\ sessions[ret.sid].expiresAt < now + SESSION_TIMEOUT

\* C7 as stated: every stored session has expiresAt = lastActivity + 24h and
\* its lastActivity equals the lastActivity embedded in its context.
C7_ExpiryTracksLastActivity ==
    \A sid \in DOMAIN sessions :
        /\ sessions[sid].expiresAt = sessions[sid].lastActivity + SESSION_TIMEOUT
        /\ sessions[sid].lastActivity = sessions[sid].context.session.lastActivity

----------------------------------------------------------------------------
(* Claim C1: the recent-locations list *)

\* The location records of the stores: of every session, and of the client
LocationRecords ==
    {sessions[sid].context.location : sid \in DOMAIN sessions}
        \cup {client.location}

\* The caller's record, without the stamps the client store adds
Bare(loc) == Loc(loc.city, loc.country, loc.latitude, loc.longitude)

Position(recent, loc) == CHOOSE i \in 1..Len(recent) : recent[i] = loc
Holds(recent, loc) == \E i \in 1..Len(recent) : recent[i] = loc

\* No two entries of the same place, at most 5 entries, and the current
\* location, once there is one, is the entry at index 0.
RecentShape(L) ==
    /\ Len(L.recent) <= 5
    /\ \A i, j \in 1..Len(L.recent) :
          i # j => ~SamePlace(L.recent[i], L.recent[j])
    /\ IF L.current = Null THEN L.recent = <<>>
       ELSE L.recent # <<>> /\ L.recent[1] = L.current

\* One most-recently-used step from the list old to the list new with the
\* argument location: the argument is at index 0; the entries behind it are
\* earlier entries in their earlier order; an earlier entry is missing only
\* if it is the argument's place or if the list is full and every entry
\* that was behind it is missing too.
MruStep(old, new, location) ==
    /\ new # <<>> /\ Bare(new[1]) = location
    /\ \A i \in 2..Len(new) : Holds(old, new[i])
    /\ \A i, j \in 2..Len(new) :
          i < j => Position(old, new[i]) < Position(old, new[j])
    /\ \A i \in 1..Len(old) :
          (~Holds(new, old[i]) /\ ~SamePlace(old[i], location)) =>
            /\ Len(new) = 5
            /\ \A j \in (i + 1)..Len(old) : ~Holds(new, old[j])

\* C1: after any sequence of updateLocation calls on a session or on the
\* client store, location.recent has no two entries of the same
\* (city, country), has at most 5 entries, and is ordered most recently
\* used first, the argument of the latest call at index 0 and equal to
\* location.current.
C1_RecentLocationsMru ==
    /\ [](\A L \in LocationRecords : RecentShape(L))
    /\ [][ /\ \A sid \in DOMAIN sessions, location \in Locations :
                (UpdateLocation(sid, location, Steady(5)) /\ ret'.found) =>
                  /\ sessions'[sid].context.location.current = location
                  /\ MruStep(sessions[sid].context.location.recent,
                             sessions'[sid].context.location.recent, location)
           /\ \A location \in Locations :
                CMUpdateLocation(location, Steady(3)) =>
                  /\ Bare(client'.location.current) = location
                  /\ MruStep(client.location.recent,
                             client'.location.recent, location) ]_vars

\* C1 witness: a session holds 5 recent places after more than 6 updates,
\* and the place first used is back at index 0.
C1_Witness ==
    \E sid \in DOMAIN sessions :
        /\ Len(sessions[sid].context.location.recent) = 5
        /\ messageCountOf(sid) > 6
        /\ SamePlace(sessions[sid].context.location.recent[1], AllLocations[1])

----------------------------------------------------------------------------
(* Claim C2: the recent-dates list *)

TemporalRecords ==
    {sessions[sid].context.temporal : sid \in DOMAIN sessions}
        \cup {client.temporal}

\* The target dates a caller may pass, and no date in its two forms
DateArgs == Dates \cup {Undefined, ""}

\* No two entries of the same date, at most 10 entries.
RecentDatesShape(T) ==
    /\ Len(T.recentDates) <= 10
    /\ \A i, j \in 1..Len(T.recentDates) :
          i # j => T.recentDates[i].date # T.recentDates[j].date

\* One most-recently-used step from the list old to the list new with the
\* target date: as MruStep, for dates and a capacity of 10.
MruDateStep(old, new, targetDate) ==
    /\ new # <<>> /\ new[1].date = targetDate
    /\ \A i \in 2..Len(new) : Holds(old, new[i])
    /\ \A i, j \in 2..Len(new) :
          i < j => Position(old, new[i]) < Position(old, new[j])
    /\ \A i \in 1..Len(old) :
          (~Holds(new, old[i]) /\ old[i].date # targetDate) =>
            /\ Len(new) = 10
            /\ \A j \in (i + 1)..Len(old) : ~Holds(new, old[j])

\* What C2 says of a session: an update that carries a date is one MRU
\* step, another update leaves the list alone.
SessionDatesStep ==
    \A sid \in DOMAIN sessions, timeframe \in Timeframes, targetDate \in DateArgs :
        (UpdateTemporal(sid, timeframe, targetDate, Steady(6)) /\ ret'.found) =>
            IF Truthy(targetDate)
            THEN MruDateStep(sessions[sid].context.temporal.recentDates,
                             sessions'[sid].context.temporal.recentDates,
                             targetDate)
            ELSE sessions'[sid].context.temporal.recentDates =
                     sessions[sid].context.temporal.recentDates

\* C2 as stated: after any sequence of temporal updates that carry a target
\* date, on a session or on the client store, recentDates has no two
\* entries of the same date, at most 10 entries, and is ordered most
\* recently used first with the latest target date at index 0.
C2_RecentDatesMru ==
    /\ [](\A T \in TemporalRecords : RecentDatesShape(T))
    /\ [][ /\ SessionDatesStep
           /\ \A timeframe \in Timeframes, targetDate \in DateArgs :
                CMUpdateTemporalContext(timeframe, targetDate,
                                        RelativeOf(targetDate), Steady(3)) =>
                  IF Truthy(targetDate)
                  THEN MruDateStep(client.temporal.recentDates,
                                   client'.temporal.recentDates, targetDate)
                  ELSE client'.temporal.recentDates = client.temporal.recentDates
         ]_vars

\* C2 amended: the same, except that the client store records a target date
\* only when the timeframe passed with it is not current; an update with
\* the timeframe current leaves the client's recentDates as it was.
C2_RecentDatesMruAmended ==
    /\ [](\A T \in TemporalRecords : RecentDatesShape(T))
    /\ [][ /\ SessionDatesStep
           /\ \A timeframe \in Timeframes, targetDate \in DateArgs :
                CMUpdateTemporalContext(timeframe, targetDate,
                                        RelativeOf(targetDate), Steady(3)) =>
                  IF Truthy(targetDate) /\ timeframe # "current"
                  THEN MruDateStep(client.temporal.recentDates,
                                   client'.temporal.recentDates, targetDate)
                  ELSE client'.temporal.recentDates = client.temporal.recentDates
         ]_vars

\* C2 witness: a session holds 10 recent dates after more than 11 dated
\* updates; the first date was dropped and came back to index 0.
C2_Witness ==
    \E sid \in DOMAIN sessions :
        LET recentDates == sessions[sid].context.temporal.recentDates IN
        /\ Len(recentDates) = 10
        /\ messageCountOf(sid) > 11
        /\ recentDates[1].date = AllDates[1]
        /\ \A i \in 1..10 : recentDates[i].date # AllDates[2]

----------------------------------------------------------------------------
(* Claims C8 - C10: the resolvers *)

Live(sid) == sid \in DOMAIN sessions /\ now <= sessions[sid].expiresAt

\* The call returned a result that does not ask for a location and whose
\* contextualQuery is the query with the stored city spliced in.
SplicedResult(r, query, city, language) ==
    /\ ~r.threw
    /\ ~r.needsLocationInput
    /\ Includes(r.contextualQuery, city)
    /\ r.contextualQuery =
          IF language = "ja" THEN city \o <<"NO">> \o query
          ELSE query \o <<" ", "i", "n", " ">> \o city

\* C8: with a current location stored and a query without locative marker,
\* the resolver returns needsLocationInput = false and a contextualQuery
\* that contains the stored city ('<query> in <city>', '<city>NO<query>'),
\* both resolveImplicitContext and resolveContextWithSession on a live
\* session.
C8_StoredCityIsSpliced ==
    [][ \A query \in Queries, language \in Languages :
          /\ ( /\ ResolveImplicitContext(query, language)
               /\ client.location.current # Null
               /\ ~hasExplicitLocation(query, language) ) =>
                SplicedResult(ret', query, client.location.current.city, language)
          /\ \A sid \in DOMAIN sessions :
               ( /\ ResolveContextWithSession(sid, query, language)
                 /\ Live(sid)
                 /\ sessions[sid].context.location.current # Null
                 /\ ~hasLocationIndicators(query, language) ) =>
                  SplicedResult(ret', query,
                                sessions[sid].context.location.current.city,
                                language) ]_vars

\* C9: for a query of fewer than 8 characters without locative marker and
\* no stored location (no session, an expired session, a live session with
\* location.current null, or the client store without current location) the
\* resolver returns a result with needsLocationInput = true.
C9_ShortQueryNeedsLocation ==
    [][ \A query \in Queries, language \in Languages :
          Len(query) < 8 =>
            /\ ( /\ ResolveImplicitContext(query, language)
                 /\ client.location.current = Null
                 /\ ~hasExplicitLocation(query, language) ) =>
                  ~ret'.threw /\ ret'.needsLocationInput
            /\ \A sid \in SidArgs :
                 ( /\ ResolveContextWithSession(sid, query, language)
                   /\ ~hasLocationIndicators(query, language)
                   /\ Live(sid) => sessions[sid].context.location.current = Null
                 ) => ~ret'.threw /\ ret'.needsLocationInput ]_vars

\* C10: when the locative-marker test is positive the resolver returns the
\* query unchanged as contextualQuery and needsLocationInput = false,
\* whether or not a session exists and whether or not a location is stored.
C10_MarkedQueryIsKept ==
    [][ \A query \in Queries, language \in Languages :
          /\ ( /\ ResolveImplicitContext(query, language)
               /\ hasExplicitLocation(query, language) ) =>
                /\ ~ret'.threw /\ ~ret'.needsLocationInput
                /\ ret'.contextualQuery = query
          /\ \A sid \in SidArgs :
               ( /\ ResolveContextWithSession(sid, query, language)
                 /\ hasLocationIndicators(query, language) ) =>
                  /\ ~ret'.threw /\ ~ret'.needsLocationInput
                  /\ ret'.contextualQuery = query ]_vars

----------------------------------------------------------------------------
(* Claims C11 - C12: the date classifier *)

\* The calendar date of day number d, as YYYY-MM-DD
DateString(d) == isoDate([day |-> d, ms |-> 0])

\* Today's day number: the calendar day of the clock, in UTC and in the
\* zone of the process
TodayUTC == Instant(now).day
TodayLocal == LocalDay(Instant(now))

Keywords == {D_today, toLowerCase(D_NOW), D_tomorrow, D_yesterday}

\* C11: parseDate maps "today", "now" and an absent date to current without
\* target date, "tomorrow" to forecast with targetDate = today + 1 day,
\* "yesterday" to historical with targetDate = today - 1 day (keywords in
\* any letter case), and every input that is neither a keyword nor a strict
\* YYYY-MM-DD literal to current without target date.  Today is read in the
\* claim's favour: the date may be counted from today's date in UTC or from
\* today's date in the zone of the process.
C11_ParseDateKeywords ==
    [][ \A dateStr \in ToolDates :
          ParseDate(dateStr) =>
            LET key == toLowerCase(dateStr) IN
            /\ (dateStr = NoDate \/ key \in {D_today, toLowerCase(D_NOW)}) =>
                  ret'.dateType = "current" /\ ret'.targetDate = NoDate
            /\ key = D_tomorrow =>
                  /\ ret'.dateType = "forecast"
                  /\ ret'.targetDate \in
                        {DateString(TodayUTC + 1), DateString(TodayLocal + 1)}
            /\ key = D_yesterday =>
                  /\ ret'.dateType = "historical"
                  /\ ret'.targetDate \in
                        {DateString(TodayUTC - 1), DateString(TodayLocal - 1)}
            /\ (dateStr # NoDate /\ key \notin Keywords
                   /\ ~IsDateLiteral(dateStr)) =>
                  ret'.dateType = "current" /\ ret'.targetDate = NoDate ]_vars

\* C12: for a strict YYYY-MM-DD literal d parseDate returns targetDate = d,
\* historical if d is strictly before today's date and forecast otherwise; a
\* literal equal to today's date is forecast at any time of day.  Today is
\* read in the claim's favour: the classification may follow today's date in
\* UTC or today's date in the zone of the process.
C12_ParseDateLiterals ==
    [][ \A dateStr \in Literals :
          ParseDate(dateStr) =>
            LET d == dateOfLiteral(dateStr).day
                typeFor(today) == IF d < today THEN "historical" ELSE "forecast"
            IN
            /\ ret'.targetDate = dateStr
            /\ ret'.dateType \in {typeFor(TodayUTC), typeFor(TodayLocal)} ]_vars

----------------------------------------------------------------------------
(* Claims C13 - C20: the turn of the tool-call orchestrator *)

\* The response of a turn that ended FAILED: the generic apology, flagged
\* as an error, under status 500
GenericFailure(t) ==
    Json([response |-> FallbackMessage(t.language), error |-> TRUE], 500)

\* The first completion call of the turn has failed
FirstFailed(t) ==
    t.phase = "returned" /\ Len(t.requests) = 1 /\ t.message = Null

\* C13: when the first completion call returns a non-success status or
\* fails in transport, the turn ends with error: true and the localized
\* generic apology under status 500; no lookup was started and no second
\* completion call is made, then or later.
C13_FirstFailureEndsTurn ==
    /\ [][ \A outcome \in Failures :
              FirstReturns(outcome) =>
                /\ turn'.phase = "returned"
                /\ turn'.response = GenericFailure(turn)
                /\ turn'.started = <<>>
                /\ turn'.requests = turn.requests ]_vars
    /\ [][ FirstFailed(turn) => turn' = turn ]_vars

C13_Witness ==
    /\ FirstFailed(turn)
    /\ turn.language = "ja"
    /\ turn.response.status = 500
    /\ turn.response.body.response = FallbackMessage("ja")

\* C14: when the first completion carries no tool calls, the turn ends with
\* the message content as response, verbatim, without error flag and under
\* status 200; no lookup was started and no second completion call is made.
C14_DirectAnswer ==
    /\ [][ \A outcome \in FirstMessages :
              (FirstReturns(outcome) /\ Len(outcome.tool_calls) = 0) =>
                /\ turn'.phase = "returned"
                /\ turn'.response =
                      Json([response |-> outcome.content, toolUsed |-> FALSE],
                           200)
                /\ turn'.started = <<>>
                /\ turn'.requests = turn.requests ]_vars
    /\ [][ (turn.phase = "returned" /\ turn.started = <<>>) =>
              turn' = turn ]_vars

C14_Witness ==
    /\ turn.phase = "returned"
    /\ turn.message # Null
    /\ turn.handler = "multi"
    /\ turn.started = <<>> /\ Len(turn.requests) = 1
    /\ turn.response.body = [response |-> turn.message.content,
                             toolUsed |-> FALSE]

\* The second completion request a turn with the tool calls of message has
\* to send: the first request's history, the assistant's tool-call message,
\* and one tool message per tool call, tagged with the call's id and holding
\* the call's observation
ExpectedToolMessages(t) ==
    [i \in 1..Len(t.message.tool_calls) |->
        [role |-> "tool",
         tool_call_id |-> t.message.tool_calls[i].id,
         content |-> stringify(Observation(t.message.tool_calls[i].arguments))]]

\* The tool messages of the second request actually sent: what follows the
\* preamble, the history and the assistant's message
SentToolMessages(t) ==
    SubSeq(t.requests[2], Len(t.messages) + 3, Len(t.requests[2]))

C16_AnyLookupFailureFailsTurn ==
    /\ [][ \A i \in 1..Len(turn.lookups) :
              (LookupSettles(i, FALSE) /\ turn.phase = "tools") =>
                turn'.phase = "returned" ]_vars
    /\ []((\E i \in 1..Len(turn.lookups) : turn.lookups[i] = "failed") =>
            /\ turn.phase = "returned"
            /\ Len(turn.requests) = 1
            /\ turn.response.status = 200
            /\ turn.response.body =
                  [response |-> ToolErrorMessage(turn.handler, turn.language,
                                  turn.message.tool_calls[1].arguments.location),
                   error |-> TRUE])

\* C16 witness: of two concurrent lookups the first has succeeded, the
\* second has failed, and the turn has ended
C16_Witness ==
    /\ turn.handler = "multi" /\ turn.phase = "returned"
    /\ turn.lookups = <<"ok", "failed">>
    /\ turn.results[1] # Null
    /\ turn.response.body.error = TRUE

\* C17: when the second completion call fails after all lookups succeeded,
\* the turn ends with the generic apology under status 500, as for a failure
\* of the first completion call.
C17_SecondFailureIsGeneric ==
    [][ \A outcome \in Failures :
          SecondReturns(outcome) =>
            /\ turn'.phase = "returned"
            /\ turn'.response = GenericFailure(turn) ]_vars

\* The turn has ended with a formatted answer after its lookups
DoneWithTools(t) ==
    /\ t.phase = "returned" /\ Len(t.requests) = 2
    /\ "weatherData" \in DOMAIN t.response.body

\* C18: the tool messages of the second completion request, and the
\* observations of weatherData in the response of the multi-city handler,
\* are in the order of the tool calls of the first completion, each tool
\* message tagged with the id of its call and holding that call's
\* observation, in whatever order the lookups settled.
C18_ResultsKeepRequestOrder ==
    /\ [](Len(turn.requests) = 2 =>
            \A k \in 1..Len(SentToolMessages(turn)) :
                SentToolMessages(turn)[k] = ExpectedToolMessages(turn)[k])
    /\ []((DoneWithTools(turn) /\ turn.handler = "multi") =>
            turn.response.body.weatherData =
              [i \in 1..Len(turn.message.tool_calls) |->
                  Observation(turn.message.tool_calls[i].arguments)])

\* C18 witness: the second lookup settled before the first, and the turn
\* has ended with its answer
C18_Witness ==
    /\ DoneWithTools(turn) /\ turn.handler = "multi"
    /\ turn.settled = <<2, 1>>
    /\ turn.response.body.weatherData[1].city = "Tokyo"

FailureSeen(t) ==
    \/ \E i \in 1..Len(t.lookups) : t.lookups[i] = "failed"
    \/ /\ t.phase = "returned"
       /\ "error" \in DOMAIN t.response.body

\* A step in which a completion call or a lookup fails
FailureStep ==
    \/ \E outcome \in Failures : FirstReturns(outcome) \/ SecondReturns(outcome)
    \/ \E i \in 1..Len(turn.lookups) : LookupSettles(i, FALSE)

\* C20: there are no retries.  Within a turn at most two completion calls
\* are made, no lookup is started twice, and neither a step in which a
\* completion call or a lookup fails nor any later step starts a completion
\* call or a lookup.
C20_NoRetries ==
    /\ [](/\ Len(turn.requests) <= 2
          /\ \A j, k \in 1..Len(turn.started) :
                turn.started[j] = turn.started[k] => j = k)
    /\ [][ (FailureStep \/ FailureSeen(turn)) =>
              /\ turn'.requests = turn.requests
              /\ turn'.started = turn.started ]_vars

\* C20 witness: two lookups and two completion calls were made, the second
\* completion call failed, and the turn has ended
C20_Witness ==
    /\ turn.phase = "returned"
    /\ Len(turn.requests) = 2 /\ Len(turn.started) = 2
    /\ "error" \in DOMAIN turn.response.body

----------------------------------------------------------------------------
(* Claims C21 - C22: the boundary of the handlers *)

\* C21: no exception leaves a handler: whatever the request body (also one
\* that does not parse, or one without a messages list), the completion
\* responses and the tool arguments, the turn never ends in an exception
\* thrown to the caller.
C21_NoExceptionEscapes == turn.phase # "threw"

\* C22: when the provider credential is absent, the handler returns a
\* failure status right away, whatever the request: the response is an error
\* under status 500, no completion request was sent, no lookup was started,
\* and no session or context state has changed.
C22_NoCredentialNoProcessing ==
    [][ \A handler \in Handlers, body \in Bodies, language \in Languages :
          Post(handler, body, FALSE, language) =>
            /\ turn'.phase = "returned"
            /\ turn'.response.status = 500
            /\ "error" \in DOMAIN turn'.response.body
            /\ turn'.requests = <<>>
            /\ turn'.started = <<>>
            /\ UNCHANGED <<sessions, client, storage>> ]_vars

----------------------------------------------------------------------------
(* Claims C23 - C24: the sweep of the registry *)

\* C23: a cleanup() sweep removes exactly the sessions whose expiresAt has
\* passed (now > expiresAt); every session with now <= expiresAt stays in
\* the registry with its context, lastActivity and expiresAt unchanged.
C23_SweepRemovesExpiredOnly ==
    [][ Cleanup =>
          /\ DOMAIN sessions' =
                {sid \in DOMAIN sessions : now <= sessions[sid].expiresAt}
          /\ \A sid \in DOMAIN sessions' : sessions'[sid] = sessions[sid] ]_vars

\* C23 witness: a sweep has removed a session (the unswept store still has
\* it) and has kept one that is exactly at its deadline
C23_Witness ==
    /\ ret.op = "cleanup"
    /\ \E sid \in DOMAIN unswept.sessions : sid \notin DOMAIN sessions
    /\ \E sid \in DOMAIN sessions : sessions[sid].expiresAt = now

\* The calls whose returned values the sweep must not change
SessionCalls == {"createSession", "getSession"} \cup UpdateOps

\* C24: the sweep is not observable.  After the same creates, reads, updates
\* and clock advances, the call just made has returned the same on the store
\* that is swept at arbitrary points as on the store that is never swept:
\* NotFound on both, or on both the same session with the same context,
\* lastActivity and expiresAt.
C24_SweepIsUnobservable ==
    ret.op \in SessionCalls =>
        /\ ret = unswept.ret
        /\ ret.found => sessions[ret.sid] = unswept.sessions[ret.sid]

\* C24 witness: a mutator has returned a session while the swept store holds
\* fewer sessions than the unswept one
C24_Witness ==
    /\ ret.op \in UpdateOps /\ ret.found
    /\ \E sid \in DOMAIN unswept.sessions : sid \notin DOMAIN sessions

----------------------------------------------------------------------------
(* Claim C27: the field rules of the registry *)

\* No two entries of the list are the same place
DistinctPlaces(recent) ==
    \A i, j \in 1..Len(recent) : SamePlace(recent[i], recent[j]) => i = j

\* No two entries of the list are the same date
DistinctDates(recentDates) ==
    \A i, j \in 1..Len(recentDates) :
        recentDates[i].date = recentDates[j].date => i = j

\* C27: whatever seeds createSession and whatever partial contexts
\* updateSession are given, and after any of the convenience mutators, every
\* stored session has at most 5 recent locations, no two of the same place,
\* at most 10 recentDates, no two of the same date, and at most 20
\* conversationFlow entries.
C27_RegistryKeepsFieldRules ==
    \A sid \in DOMAIN sessions :
        LET c == sessions[sid].context IN
        /\ Len(c.location.recent) <= 5
        /\ DistinctPlaces(c.location.recent)
        /\ Len(c.temporal.recentDates) <= 10
        /\ DistinctDates(c.temporal.recentDates)
        /\ Len(c.conversation.conversationFlow) <= 20

----------------------------------------------------------------------------
(* Claim C25: the timeframe and the target date *)

\* temporal.currentTimeframe = current implies temporal.targetDate = null
CurrentIsUndated(temporal) ==
    temporal.currentTimeframe = "current" => temporal.targetDate = NullStr

\* C25: in every state of every session context and of the client store, a
\* timeframe of current goes with a null target date, whatever arguments
\* updateTemporal and updateTemporalContext were called with, also the
\* timeframe current together with a target date.
C25_CurrentHasNoTargetDate ==
    /\ \A sid \in DOMAIN sessions : CurrentIsUndated(sessions[sid].context.temporal)
    /\ CurrentIsUndated(client.temporal)

----------------------------------------------------------------------------
(* Claim C26: the conversation flow *)

\* after is before with one entry appended at the end and, when that makes
\* more than 20, without its oldest entries
AppendedTo(before, after) ==
    LET dropped == Len(before) + 1 - Len(after) IN
    /\ Len(after) = Min(Len(before) + 1, 20)
    /\ \A k \in 1..(Len(after) - 1) : after[k] = before[k + dropped]
    /\ after[Len(after)].timestamp = now'

\* The timestamps of the entries grow along the flow
InOrderOfAppending(flow) ==
    \A j, k \in 1..Len(flow) : j < k => flow[j].timestamp < flow[k].timestamp

\* A call on the client store that appends to its flow: a location, a dated
\* timeframe other than current, or an intent
ClientAppends ==
    \/ \E location \in Locations : CMUpdateLocation(location, Steady(3))
    \/ \E date \in Dates :
          CMUpdateTemporalContext("forecast", date, Undefined, Steady(3))
    \/ \E intent \in Intents :
          CMUpdateConversationContext(Q_Tomorrow, intent, Undefined, Steady(2))

\* A call on the live session sid that appends to its flow
SessionAppends(sid) ==
    \E intent \in Intents : UpdateConversation(sid, Q_Tomorrow, intent, Steady(6))

\* C26: after any sequence of mutator calls the conversationFlow has at most
\* 20 entries, in the order in which they were appended; a call that logs an
\* entry appends it at the end, and when that would make more than 20
\* entries the oldest are dropped and the newest 20 kept; no other call
\* changes the flow.
C26_FlowIsBoundedLog ==
    /\ [](/\ Len(client.conversation.conversationFlow) <= 20
          /\ InOrderOfAppending(client.conversation.conversationFlow)
          /\ \A sid \in DOMAIN sessions :
                LET flow == sessions[sid].context.conversation.conversationFlow
                IN Len(flow) <= 20 /\ InOrderOfAppending(flow))
    /\ [][ IF ClientAppends
           THEN AppendedTo(client.conversation.conversationFlow,
                           client.conversation.conversationFlow')
           ELSE client.conversation.conversationFlow' =
                  client.conversation.conversationFlow ]_vars
    /\ [][ \A sid \in DOMAIN sessions \cap DOMAIN sessions' :
             IF SessionAppends(sid)
             THEN AppendedTo(sessions[sid].context.conversation.conversationFlow,
                             sessions'[sid].context.conversation.conversationFlow)
             ELSE sessions'[sid].context.conversation.conversationFlow =
                    sessions[sid].context.conversation.conversationFlow ]_vars

\* C26 witness: the client store has appended 22 entries of all three kinds;
\* the two oldest are gone
C26_Witness ==
    LET flow == client.conversation.conversationFlow IN
    /\ Len(flow) = 20
    /\ flow[1].timestamp = 2 /\ flow[20].timestamp = 21
    /\ flow[1].type = "location" /\ flow[20].type = "intent"
    /\ \E k \in 1..20 : flow[k].type = "date"

\* C26 witness on a session: 21 intents were appended, the oldest is gone
C26_WitnessSession ==
    \E sid \in DOMAIN sessions :
        LET flow == sessions[sid].context.conversation.conversationFlow IN
        /\ Len(flow) = 20
        /\ flow[1].timestamp > 0

----------------------------------------------------------------------------
(* Claims C28 - C30: the client store and its persisted copy *)

\* The in-memory state a mutator leaves when the backend works: the change
\* of the mutator, and lastActivity at the time of the call
AsWithBackend(ctx) == [ctx EXCEPT !.session.lastActivity = now']

\* C28: without a persistence backend (no window, or a storage that throws)
\* the client store works in memory: construction, the four mutators and
\* clearContext complete without error and leave the in-memory state they
\* leave with a working backend, complete and never partly updated.
C28_DegradesToMemory ==
    /\ [](~ret.threw)
    /\ [][ /\ \A location \in Locations :
                CMUpdateLocation(location, Steady(3)) =>
                  client' = AsWithBackend(
                                cmUpdateLocation(client, location, now, now))
           /\ \A date \in Dates :
                CMUpdateTemporalContext("forecast", date, "tomorrow", Steady(3)) =>
                  client' = AsWithBackend(
                                cmUpdateTemporalContext(client, "forecast", date,
                                                        "tomorrow", now, now))
           /\ \A intent \in Intents :
                CMUpdateConversationContext(Q_Tomorrow, intent, Undefined,
                                            Steady(2)) =>
                  client' = AsWithBackend(
                                cmUpdateConversationContext(client, Q_Tomorrow,
                                                            intent, Undefined, now))
           /\ CMUpdatePreferences([k \in {"units"} |-> "imperial"], Steady(1)) =>
                client' = AsWithBackend(
                              cmUpdatePreferences(client,
                                                  [k \in {"units"} |-> "imperial"]))
           /\ ClearContext(Steady(1)) => client' = FreshContext(now, "ja")
           /\ (Construct(Steady(3)) /\ (~hasWindow \/ backend = "denied")) =>
                client' = FreshContext(now, "ja") ]_vars

\* The snapshot under the storage key, when the storage can be read and
\* holds a text that parses
Snapshot == storage[1]
HasSnapshot ==
    hasWindow /\ backend # "denied" /\ storage # <<>> /\ storage[1] # Garbled

\* The lastActivity of the snapshot is more than 24 hours before t, or the
\* snapshot has none
OlderThanADay(parsed, t) ==
    \/ ~HasLastActivity(parsed)
    \/ t - parsed.session.lastActivity > 24 * 60 * 60 * 1000

\* C29: a page load that finds a snapshot whose lastActivity is older than
\* 24 hours, or that has no lastActivity, starts from fresh defaults and
\* clears the persisted copy; a load that finds a snapshot not older than 24
\* hours restores its location, temporal and conversation state.
C29_LoadRestoresUnexpired ==
    [][ (Construct(Steady(3)) /\ HasSnapshot) =>
          IF OlderThanADay(Snapshot, now)
          THEN client' = FreshContext(now, "ja") /\ storage' = <<>>
          ELSE /\ client'.location = Snapshot.location
               /\ client'.temporal = Snapshot.temporal
               /\ client'.conversation = Snapshot.conversation ]_vars

\* C30: clearContext leaves the store equal to a freshly initialized
\* context (no current location; recent locations, recentDates and
\* conversationFlow empty; timeframe current; messageCount 0) and leaves no
\* persisted copy, so that a store constructed afterwards restores nothing.
C30_ClearResetsEverything ==
    [][ ClearContext(Steady(1)) =>
          /\ client' = FreshContext(now, "ja")
          /\ client'.location.current = Null
          /\ client'.location.recent = <<>>
          /\ client'.temporal.recentDates = <<>>
          /\ client'.temporal.currentTimeframe = "current"
          /\ client'.conversation.conversationFlow = <<>>
          /\ client'.session.messageCount = 0
          /\ storage' = <<>>
          /\ \A t \in {now, now + 1} :
                loadedContext(FreshContext(t, "ja"), storage', t, t) =
                    FreshContext(t, "ja") ]_vars

\* C30 witness: the storage has filled up since a snapshot was written, and
\* clearContext has removed the snapshot and reset the store
C30_Witness ==
    /\ ret.op = "ContextManager.clearContext"
    /\ backend = "full"
    /\ storage = <<>>
    /\ client = FreshContext(now, "ja")

----------------------------------------------------------------------------
(* Claim C40: the types of temporal.recentDates *)

\* every entry of the list has type historical or forecast
DatedTypesOnly(recentDates) ==
    \A k \in 1..Len(recentDates) : recentDates[k].type \in {"historical", "forecast"}

\* C40: every entry of temporal.recentDates, of every session context and of
\* the client store, has type historical or forecast; no temporal update, with
\* any timeframe and target date, records an entry of type current.
C40_RecentDatesAreDated ==
    /\ \A sid \in DOMAIN sessions :
         DatedTypesOnly(sessions[sid].context.temporal.recentDates)
    /\ DatedTypesOnly(client.temporal.recentDates)

\* The part of C40 about the client store alone
C40_ClientPart == DatedTypesOnly(client.temporal.recentDates)

----------------------------------------------------------------------------
(* Claim C32: what a mutator changes *)

SubRecords == {"location", "temporal", "conversation", "preferences"}

\* after is before with nothing changed outside the sub-record own, with
\* lastActivity at the time of the call and one more message counted
OwnRecordAndCounters(before, after, own) ==
    /\ \A k \in SubRecords \ {own} : after[k] = before[k]
    /\ after.session.startTime = before.session.startTime
    /\ after.session.lastActivity = now'
    /\ after.session.messageCount = before.session.messageCount + 1

\* The sub-record of the SessionStore mutator that this step runs on the live
\* session sid, or "none"
SessionMutatorOf(sid) ==
    IF \E location \in Locations : UpdateLocation(sid, location, Steady(5))
    THEN "location"
    ELSE IF \E date \in Dates : UpdateTemporal(sid, "forecast", date, Steady(6))
    THEN "temporal"
    ELSE IF \E intent \in Intents :
              UpdateConversation(sid, Q_Tomorrow, intent, Steady(6))
    THEN "conversation"
    ELSE "none"

\* The sub-record of the ContextManager mutator that this step runs, or "none"
ClientMutatorOf ==
    IF \E location \in Locations : CMUpdateLocation(location, Steady(3))
    THEN "location"
    ELSE IF \E a \in {<<"forecast", AllDates[1]>>, <<"current", Undefined>>} :
              CMUpdateTemporalContext(a[1], a[2], Undefined, Steady(3))
    THEN "temporal"
    ELSE IF \E intent \in Intents :
              CMUpdateConversationContext(Q_Tomorrow, intent, Undefined, Steady(2))
    THEN "conversation"
    ELSE "none"

\* The part of C32 about the SessionStore mutators
C32_SessionStorePart ==
    [][ \A sid \in DOMAIN sessions \cap DOMAIN sessions' :
          SessionMutatorOf(sid) # "none" =>
            OwnRecordAndCounters(sessions[sid].context, sessions'[sid].context,
                                 SessionMutatorOf(sid)) ]_vars

\* C32: each mutator changes exactly its own sub-record and the session
\* counters: a location update only location, a temporal update only
\* temporal, a conversation update only conversation, none of them the
\* preferences, and each bumps lastActivity and increments messageCount, for
\* the SessionStore mutators and for the ContextManager mutators.
C32_MutatorsKeepTheirFrame ==
    /\ C32_SessionStorePart
    /\ [][ ClientMutatorOf # "none" =>
             OwnRecordAndCounters(client, client', ClientMutatorOf) ]_vars

\* The ContextManager part of C32 with the conversationFlow left out of the
\* frame and the message count required of the conversation update alone
C32_ClientBesidesFlow ==
    [][ ClientMutatorOf # "none" =>
          /\ \A k \in SubRecords \ {ClientMutatorOf, "conversation"} :
                client'[k] = client[k]
          /\ ClientMutatorOf # "conversation" =>
                /\ [client'.conversation EXCEPT !.conversationFlow = <<>>]
                     = [client.conversation EXCEPT !.conversationFlow = <<>>]
                /\ client'.session.messageCount = client.session.messageCount
          /\ ClientMutatorOf = "conversation" =>
                client'.session.messageCount = client.session.messageCount + 1
          /\ hasWindow => client'.session.lastActivity = now' ]_vars

----------------------------------------------------------------------------
(* SpecShared: a registry whose sessions are created from shared seed       *)
(* objects, several of them within one millisecond.  Math.random() is drawn *)
(* from 1..MaxRnd, its values numbered in the order in which they first    *)
(* appear within a millisecond.  createSession spreads the seed shallowly, so sessions   *)
(* created from one seed hold the same sub-record objects; no method of     *)
(* SessionStore assigns into a sub-record (updateSession and the three      *)
(* convenience mutators build new records), so a sub-record is modelled by  *)
(* its value.  The clock moves between calls, by a timeout and a            *)
(* millisecond, which expires every session of the registry.                *)

MaxRnd == 2            \* values of Math.random() in the shared-seed runs
SharedMaxExpiries == 1 \* times the clock advances in the shared-seed runs

SharedSeeds == {EmptyPartial, CrowdedSeed}

SharedCreate ==
    \E seed \in SharedSeeds, rnd \in 1..MaxRnd :
        /\ Cardinality(DOMAIN sessions) < MaxSessions
        /\ rnd <= Cardinality({s \in DOMAIN sessions : s[1] = now}) + 1
        /\ CreateSession(seed, rnd, Steady(2))

SharedGet == \E sid \in SidArgs : GetSession(sid)

SharedUpdate ==
    \E sid \in SidArgs :
        RegBudget(sid) /\ UpdateSession(sid, JaPreferencesPartial, Steady(4))

SharedUpdateLocation ==
    \E sid \in SidArgs :
        RegBudget(sid) /\ UpdateLocation(sid, AllLocations[7], Steady(5))

SharedUpdateTemporal ==
    \E sid \in SidArgs :
        RegBudget(sid) /\ UpdateTemporal(sid, "forecast", AllDates[1], Steady(6))

SharedUpdateConversation ==
    \E sid \in SidArgs :
        RegBudget(sid) /\ UpdateConversation(sid, Q_Tomorrow, "weather", Steady(6))

SharedCleanup == Cleanup

SharedTick == Day(now) < SharedMaxExpiries /\ Tick(SESSION_TIMEOUT + 1)

NextShared ==
    \/ SharedCreate
    \/ SharedGet
    \/ SharedUpdate
    \/ SharedUpdateLocation
    \/ SharedUpdateTemporal
    \/ SharedUpdateConversation
    \/ SharedCleanup
    \/ SharedTick

SpecShared == InitServer /\ [][NextShared]_vars

----------------------------------------------------------------------------
(* Claim C33: sessions are independent *)

\* C33: a call that names session A (create, get, update, with the lazy
\* eviction of A they may perform) leaves every other entry B of the registry
\* in place with its context, lastActivity and expiresAt unchanged, also when
\* A and B were created from the same seed; the sweep removes B only if B
\* itself has expired, and changes no entry it leaves.
C33_SessionsAreIndependent ==
    [][ \A b \in DOMAIN sessions :
          b # ret'.sid =>
            IF b \in DOMAIN sessions'
            THEN sessions'[b] = sessions[b]
            ELSE ret'.op = "cleanup" /\ Expired(sessions[b], now) ]_vars

\* C33 witness: two live sessions created from the same seed in the same
\* millisecond; one of them has had its location updated, the other still
\* holds the location record of the seed
C33_Witness ==
    \E a, b \in DOMAIN sessions :
        /\ a # b /\ a[1] = b[1]
        /\ sessions[a].context.location.current = AllLocations[7]
        /\ sessions[a].context.session.messageCount = 1
        /\ sessions[b].context.location = CrowdedLocation
        /\ sessions[b].context.session.messageCount = 0
        /\ ret.op = "updateLocation" /\ ret.sid = a /\ ret.found

----------------------------------------------------------------------------
(* Claim C34: createSession and the ids of the registry *)

\* This step is a createSession call
CreatesSession ==
    \E seed \in SharedSeeds, rnd \in 1..MaxRnd : CreateSession(seed, rnd, Steady(2))

\* C34: createSession returns an id that is not yet in the registry, so that
\* every entry of the registry stays as it was, also for two creations in the
\* same millisecond; the new session expires 24 hours after its creation and
\* has counted no message.
C34_CreateReturnsFreshId ==
    [][ CreatesSession =>
          /\ ret'.sid \notin DOMAIN sessions
          /\ \A b \in DOMAIN sessions : sessions'[b] = sessions[b]
          /\ sessions'[ret'.sid].expiresAt = now' + SESSION_TIMEOUT
          /\ sessions'[ret'.sid].context.session.messageCount = 0 ]_vars

\* The part of C34 that does not depend on the id: the new entry expires 24
\* hours after its creation and has counted no message, and every entry
\* under another id stays as it was
C34_NewEntryPart ==
    [][ CreatesSession =>
          /\ \A b \in DOMAIN sessions \ {ret'.sid} : sessions'[b] = sessions[b]
          /\ sessions'[ret'.sid].expiresAt = now' + SESSION_TIMEOUT
          /\ sessions'[ret'.sid].context.session.messageCount = 0 ]_vars

----------------------------------------------------------------------------
(* Claim C38: an expired session stays dead *)

\* The ids createSession can return in the registry runs
RegIds == {generateSessionId(k * SESSION_TIMEOUT, 1) : k \in 0..RegMaxDays}

\* sid is stored and its expiry has passed
ExpiredIn(sid) == sid \in DOMAIN sessions /\ now > sessions[sid].expiresAt

\* sid is stored and its expiry has not passed
LiveIn(sid) == sid \in DOMAIN sessions /\ now <= sessions[sid].expiresAt

\* C38: once the expiry of a session has passed it is never live again; a
\* call of getSession or of a mutator returns a session only if that session
\* was live when the call was made, so every call after the expiry returns
\* NotFound; no step changes the entry of an expired session other than by
\* removing it, and the first getSession or mutator call after the expiry
\* removes it.
C38_ExpiredStaysDead ==
    /\ \A sid \in RegIds : [](ExpiredIn(sid) => [](~LiveIn(sid)))
    /\ [][ \A sid \in SidArgs :
             RegCall(sid) =>
               /\ ret'.found => LiveIn(sid)
               /\ ExpiredIn(sid) => ~ret'.found /\ sid \notin DOMAIN sessions' ]_vars
    /\ [][ \A sid \in DOMAIN sessions :
             (ExpiredIn(sid) /\ sid \in DOMAIN sessions') =>
               sessions'[sid] = sessions[sid] ]_vars

\* C38 witness: a mutator has been refused on an id whose session had been
\* updated while it was live, expired, and was removed by an earlier call;
\* a session created after the expiry is live
C38_Witness ==
    /\ ret.op \in UpdateOps /\ ~ret.found
    /\ ret.sid \in RegIds /\ ret.sid \notin DOMAIN sessions
    /\ now > ret.sid[1] + SESSION_TIMEOUT
    /\ \E other \in DOMAIN sessions : other[1] = now

----------------------------------------------------------------------------
(* Claim C37: no stored location and a negative test *)

\* C37: for every query on which the test of the resolver is negative (no
\* locative marker and, in resolveContextWithSession, not more than 10
\* characters) and for which no location is stored (an unknown id, an
\* expired session, a live session with location.current null, or the client
\* store without current location), the resolver returns a result with
\* needsLocationInput = true, whatever the length of the query.
C37_NoLocationNeedsInput ==
    [][ \A query \in Queries, language \in Languages :
          /\ ( /\ ResolveImplicitContext(query, language)
               /\ client.location.current = Null
               /\ ~hasExplicitLocation(query, language) ) =>
                ~ret'.threw /\ ret'.needsLocationInput
          /\ \A sid \in SidArgs :
               ( /\ ResolveContextWithSession(sid, query, language)
                 /\ ~hasLocationIndicators(query, language)
                 /\ Live(sid) => sessions[sid].context.location.current = Null
               ) => ~ret'.threw /\ ret'.needsLocationInput ]_vars

\* The part of C37 about ids that name no live session
C37_NoSessionPart ==
    [][ \A query \in Queries, language \in Languages, sid \in SidArgs :
          ( /\ ResolveContextWithSession(sid, query, language)
            /\ ~hasLocationIndicators(query, language)
            /\ ~Live(sid) ) => ~ret'.threw /\ ret'.needsLocationInput ]_vars

\* The part of C37 about the client resolver
C37_ClientPart ==
    [][ \A query \in Queries, language \in Languages :
          ( /\ ResolveImplicitContext(query, language)
            /\ client.location.current = Null
            /\ ~hasExplicitLocation(query, language) ) =>
              ~ret'.threw /\ ret'.needsLocationInput ]_vars

----------------------------------------------------------------------------
(* SpecTurnFair: a turn whose external calls all come back.  Every          *)
(* completion call and every lookup that is awaited eventually returns or   *)
(* fails.                                                                   *)

SpecTurnFair ==
    /\ SpecTurn
    /\ WF_vars(TurnFirstReturns)
    /\ WF_vars(TurnLookupSettles)
    /\ WF_vars(TurnSecondReturns)

----------------------------------------------------------------------------
(* Claim C35: the states of a turn *)

\* The moves of the state machine of a turn: the first completion is
\* awaited, then the turn ends (direct answer, or failure) or executes the
\* tools, after which it ends or awaits the second completion and ends.  A
\* request that is refused before the first completion call ends at once.
TurnMoves ==
    { <<"idle", "first">>, <<"idle", "returned">>,
      <<"first", "returned">>, <<"first", "tools">>,
      <<"tools", "returned">>, <<"tools", "second">>,
      <<"second", "returned">> }

\* The turn moves along moves only, awaits the second completion only after
\* every lookup it started succeeded, and once ended keeps its one response
TurnFollows(moves) ==
    /\ turn'.phase # turn.phase => <<turn.phase, turn'.phase>> \in moves
    /\ (turn.phase # "second" /\ turn'.phase = "second") =>
          /\ turn'.started # <<>>
          /\ \A k \in 1..Len(turn'.started) :
                turn'.lookups[turn'.started[k]] = "ok"
    /\ turn.phase \in {"returned", "threw"} =>
          turn'.phase = turn.phase /\ turn'.response = turn.response

\* A response is there exactly when the handler has returned
OneResponse == (turn.phase = "returned") = (turn.response # NoResponse)

\* C35: provided every external call eventually returns or fails, every turn
\* ends, in exactly one terminal state and with exactly one response; its
\* states are visited only in the order first completion, then direct answer
\* or tool execution, then second completion only after the tools succeeded.
C35_TurnEndsOnce ==
    /\ [][TurnFollows(TurnMoves)]_vars
    /\ []OneResponse
    /\ (turn.phase # "idle") ~> (turn.phase = "returned")

\* C35 for the turns of which no exception leaves the handler, the thrown
\* exception counted as an end without response
C35_BesidesThrown ==
    /\ [][TurnFollows(TurnMoves \cup {<<"idle", "threw">>})]_vars
    /\ []OneResponse
    /\ (turn.phase # "idle") ~> (turn.phase \in {"returned", "threw"})

----------------------------------------------------------------------------
(* SpecSnapshot: a caller takes a snapshot of the client store with         *)
(* getFullContext(), as useWeatherContext does, and holds it while the      *)
(* store is used further; the caller may also assign to the object it was   *)
(* given, to a property of it or to a field of one of its sub-records.      *)
(* The clock stands still.                                                  *)

SnapMaxOps == 2       \* flow entries of the client store in the snapshot runs

\* ContextManager.getFullContext
GetFullContext ==
    /\ held' = [taken |-> TRUE, shared |-> DOMAIN client, own |-> client]
    /\ ret' = Ret("ContextManager.getFullContext", NoSid, TRUE)
    /\ UNCHANGED <<now, sessions, client, storage, hasWindow, epochDay, tz, turn,
                   unswept, backend, chat, inflight>>

\* snapshot[key] = value, by the holder of the snapshot
AssignProperty(key, value) ==
    /\ held.taken
    /\ held' = [held EXCEPT !.shared = @ \ {key}, !.own[key] = value]
    /\ UNCHANGED <<now, sessions, client, storage, hasWindow, ret, epochDay, tz,
                   turn, unswept, backend, chat, inflight>>

\* snapshot[key][field] = value, by the holder of the snapshot: the
\* assignment goes into the object found under key, which is the object of
\* the store while the key is shared
AssignField(key, field, value) ==
    /\ held.taken
    /\ Seen(held)[key][field] # value
    /\ IF key \in held.shared
       THEN client' = [client EXCEPT ![key][field] = value] /\ held' = held
       ELSE held' = [held EXCEPT !.own[key][field] = value] /\ client' = client
    /\ UNCHANGED <<now, sessions, storage, hasWindow, ret, epochDay, tz,
                   turn, unswept, backend, chat, inflight>>

\* The assignments a holder makes in these runs
PropertyWrites ==
    { <<"location", [current |-> Null, recent |-> <<>>, preferences |-> <<>>]>> }
FieldWrites ==
    { <<"location", "current", Null>>,
      <<"temporal", "currentTimeframe", "historical">>,
      <<"conversation", "queryIntent", "travel">>,
      <<"session", "messageCount", 99>> }

SnapBudget == Len(client.conversation.conversationFlow) < SnapMaxOps

SnapGet == ~held.taken /\ GetFullContext

SnapUpdateLocation ==
    SnapBudget /\ CMUpdateLocation(AllLocations[1], Steady(3))

SnapUpdateTemporal ==
    SnapBudget
    /\ CMUpdateTemporalContext("forecast", AllDates[2], Undefined, Steady(3))

SnapUpdateConversation ==
    SnapBudget
    /\ CMUpdateConversationContext(Q_Tomorrow, "weather", Undefined, Steady(2))

SnapUpdatePreferences ==
    /\ client.preferences.units = "metric"
    /\ CMUpdatePreferences([k \in {"units"} |-> "imperial"], Steady(1))

SnapClear == client # FreshContext(now, "ja") /\ ClearContext(Steady(1))

SnapAssignProperty == \E w \in PropertyWrites : AssignProperty(w[1], w[2])

SnapAssignField == \E w \in FieldWrites : AssignField(w[1], w[2], w[3])

NextSnapshot ==
    \/ SnapGet
    \/ SnapUpdateLocation
    \/ SnapUpdateTemporal
    \/ SnapUpdateConversation
    \/ SnapUpdatePreferences
    \/ SnapClear
    \/ SnapAssignProperty
    \/ SnapAssignField

SpecSnapshot == Init /\ [][NextSnapshot]_vars

----------------------------------------------------------------------------
(* Claim C31: the snapshot of getFullContext *)

\* The holder of the snapshot assigns to it
HolderAssigns == SnapAssignProperty \/ SnapAssignField

\* A method of the store runs
StoreRuns ==
    \/ SnapUpdateLocation \/ SnapUpdateTemporal \/ SnapUpdateConversation
    \/ SnapUpdatePreferences \/ SnapClear

\* What the holder of the snapshot reads after the step
SeenAfter ==
    [k \in DOMAIN held'.own |->
        IF k \in held'.shared THEN client'[k] ELSE held'.own[k]]

\* C31: the snapshot returned by getFullContext() is a copy: what its holder
\* assigns to it, also to a field of its location, temporal, conversation or
\* session record, does not change the state of the store, and a later
\* mutation of the store does not change a snapshot taken earlier.
C31_SnapshotIsACopy ==
    /\ [][HolderAssigns => client' = client]_vars
    /\ [][(held.taken /\ StoreRuns) => SeenAfter = Seen(held)]_vars

\* The part of C31 that the copy of the top-level object gives: assigning a
\* property of the snapshot leaves the store as it is, and a method that
\* replaces an object of the store (updatePreferences, clearContext) leaves
\* the snapshot as it is
C31_TopLevelPart ==
    /\ [][SnapAssignProperty => client' = client]_vars
    /\ [][(held.taken /\ (SnapUpdatePreferences \/ SnapClear)) =>
            SeenAfter = Seen(held)]_vars

----------------------------------------------------------------------------
(* SpecInterleave: turns that bear the same session id run side by side.    *)
(* Each of them makes one SessionStore mutator call.  The mutators are      *)
(* synchronous methods: a call runs from its getSession to its return       *)
(* without an await, so the calls of the turns take effect one after the    *)
(* other, in any order, with reads of other requests and a millisecond of   *)
(* the clock in between.                                                    *)

MaxTurns == 2         \* turns that run side by side

\* Faulty variant: the call works on the registry as it was when the turns
\* arrived, and writes its result back
registryAtArrival(S, base) == base

\* this.sessions as the method finds it when it runs
registryAtCall(S, base) == S

\* The mutator calls the turns may make
LocationCall(location) ==
    [kind |-> "location", location |-> location, intent |-> "general"]
ConversationCall(intent) ==
    [kind |-> "conversation", location |-> Null, intent |-> intent]
TurnCalls ==
    {LocationCall(location) : location \in Locations}
      \cup {ConversationCall(intent) : intent \in {"weather", "travel"}}

\* Calls that name different places
DistinctCalls(calls) ==
    \A c, d \in calls :
        (c # d /\ c.kind = "location" /\ d.kind = "location") =>
            ~SamePlace(c.location, d.location)

\* The call c of a turn, made on session sid
callR(S, sid, c) ==
    IF c.kind = "location" THEN updateLocationR(S, sid, c.location, Steady(5))
    ELSE updateConversationR(S, sid, Q_Tomorrow, c.intent, Steady(6))

IlvCreate ==
    /\ DOMAIN sessions = {}
    /\ CreateSession(EmptyPartial, 1, Steady(2))

\* The turns arrive with the id of a live session
IlvArrive ==
    \E sid \in DOMAIN sessions, calls \in SUBSET TurnCalls :
        /\ inflight = NoInflight
        /\ Cardinality(calls) = MaxTurns /\ DistinctCalls(calls)
        /\ inflight' = [sid |-> sid, base |-> sessions, todo |-> calls,
                        done |-> {}]
        /\ UNCHANGED <<now, sessions, client, storage, hasWindow, ret, epochDay,
                       tz, turn, unswept, backend, chat, held>>

\* One of the turns makes its call
IlvCall ==
    \E c \in inflight.todo :
        LET r == callR(registryAtCall(sessions, inflight.base), inflight.sid, c)
        IN
        /\ sessions' = r.S
        /\ now' = r.t
        /\ ret' = Ret(IF c.kind = "location" THEN "updateLocation"
                      ELSE "updateConversation", inflight.sid, r.found)
        /\ inflight' = [inflight EXCEPT !.todo = @ \ {c}, !.done = @ \cup {c}]
        /\ UNCHANGED <<client, storage, hasWindow, epochDay, tz, turn, unswept,
                       backend, chat, held>>

\* Another request reads the session
IlvGet == \E sid \in DOMAIN sessions : GetSession(sid)

IlvTick == now < MaxJitter /\ Tick(1)

NextInterleave ==
    \/ IlvCreate
    \/ IlvArrive
    \/ IlvCall
    \/ IlvGet
    \/ IlvTick

SpecInterleave == InitServer /\ [][NextInterleave]_vars

----------------------------------------------------------------------------
(* Claim C39: no update is lost *)

\* place is in the list of recent locations
InRecent(recent, place) == \E k \in 1..Len(recent) : SamePlace(recent[k], place)

\* intent is in the conversation flow
InFlow(flow, intent) ==
    \E k \in 1..Len(flow) : flow[k].type = "intent" /\ flow[k].value = intent

\* C39: when turns bearing the same session id interleave, every mutator
\* call takes effect as one indivisible step and no update is lost: whatever
\* the order of the calls, every call made so far has counted one message,
\* every place passed to updateLocation is in location.recent and every
\* intent passed to updateConversation is in the conversation flow; after
\* updateLocation(A) and updateLocation(B) both A and B are in
\* location.recent and messageCount has grown by exactly 2.
C39_NoLostUpdate ==
    inflight # NoInflight =>
        LET sid == inflight.sid
            before == inflight.base[sid].context
            ctx == sessions[sid].context
        IN
        /\ sid \in DOMAIN sessions
        /\ ctx.session.messageCount
             = before.session.messageCount + Cardinality(inflight.done)
        /\ \A c \in inflight.done :
             IF c.kind = "location"
             THEN InRecent(ctx.location.recent, c.location)
             ELSE InFlow(ctx.conversation.conversationFlow, c.intent)

\* C39 witness: two turns have called updateLocation with different places;
\* both places are in location.recent and two messages were counted
C39_Witness ==
    /\ inflight.todo = {}
    /\ inflight.done = {LocationCall(AllLocations[1]),
                        LocationCall(AllLocations[2])}
    /\ LET ctx == sessions[inflight.sid].context IN
       /\ Len(ctx.location.recent) = 2
       /\ ctx.location.recent[1] = AllLocations[1]
       /\ ctx.location.recent[2] = AllLocations[2]
       /\ ctx.session.messageCount = 2

----------------------------------------------------------------------------
(* SpecChat: the chat interface and its turns.  handleSubmit of             *)
(* OptimizedChatInterface appends the user's message to its messages state  *)
(* and posts the messages to /api/chat-optimized; the POST handler runs the *)
(* turn; when the response is there, handleSubmit appends the assistant's   *)
(* message if the response is ok.  The client store and the registry are    *)
(* there beside it.  The clock stands still.                                *)

MaxChatTurns == 2     \* messages the user submits

\* What the user types
ChatInputs == { <<"Weather in Tokyo and Paris?">>, <<"Tomorrow?">> }

\* The messages of role user
UserMessages(messages) == SelectSeq(messages, LAMBDA m : m.role = "user")

\* handleSubmit up to its await: the user's message is appended and the
\* request is sent; the handler runs up to its first await
ChatSubmit ==
    \E text \in ChatInputs, language \in Languages, hasKey \in BOOLEAN :
        LET userMessage == [id |-> now, role |-> "user", content |-> text]
            sent == Append(chat.messages, userMessage)
        IN
        /\ hasWindow
        /\ chat.phase = "idle" /\ turn.phase = "idle"
        /\ Len(UserMessages(chat.messages)) < MaxChatTurns
        /\ chat' = [phase |-> "fetching", messages |-> sent]
        /\ turn' = post("route", Body(sent), hasKey, language)
        /\ UNCHANGED <<now, sessions, client, storage, hasWindow, ret, epochDay,
                       tz, unswept, backend, held, inflight>>

\* response.ok: the handler returned a response with a status of 200 to 299
ResponseOk(t) ==
    /\ t.phase = "returned"
    /\ t.response.status >= 200 /\ t.response.status <= 299

\* handleSubmit after its await: the response has arrived (an exception
\* that left the handler arrives as a response that is not ok)
ChatReceive ==
    /\ chat.phase = "fetching"
    /\ turn.phase \in {"returned", "threw"}
    /\ chat' = [ phase |-> "idle",
                 messages |->
                    IF ResponseOk(turn)
                    THEN Append(chat.messages,
                                [id |-> now + 1, role |-> "assistant",
                                 content |-> turn.response.body.response])
                    ELSE chat.messages ]
    /\ turn' = NoTurn
    /\ UNCHANGED <<now, sessions, client, storage, hasWindow, ret, epochDay,
                   tz, unswept, backend, held, inflight>>

NextChat ==
    \/ ChatSubmit
    \/ TurnFirstReturns
    \/ TurnLookupSettles
    \/ TurnSecondReturns
    \/ ChatReceive

SpecChat == Init /\ [][NextChat]_vars

----------------------------------------------------------------------------
(* Claim C36: the stored context after a turn *)

\* The turn ended with the response of a successful tool run
DoneAfterTool(t) ==
    /\ ResponseOk(t)
    /\ "toolUsed" \in DOMAIN t.response.body
    /\ t.response.body.toolUsed

\* A current location is stored, in the client store or in a session
LocationStored(ctx, S) ==
    \/ ctx.location.current # Null
    \/ \E sid \in DOMAIN S : S[sid].context.location.current # Null

\* C36: when a turn has ended with the response of a successful tool run,
\* the stored context has been updated from the resolved tool arguments by
\* the time the next turn can start (so a current location is stored); when
\* a turn has ended by direct answer or by failure, the stored context is
\* left unchanged.
C36_ContextFollowsTools ==
    [][ ChatReceive =>
          IF DoneAfterTool(turn)
          THEN LocationStored(client', sessions')
          ELSE client' = client /\ sessions' = sessions ]_vars

\* The part of C36 about the turns that end by direct answer or by failure
C36_UnchangedPart ==
    [][ (ChatReceive /\ ~DoneAfterTool(turn)) =>
           client' = client /\ sessions' = sessions ]_vars

====
